---------------------------- MODULE Spec2Model ----------------------------
(***************************************************************************)
(* HerbCalc quantitative engine: core/units.py (unit registry and          *)
(* converter), core/solvents.py (menstruum, Pearson's square) and          *)
(* core/formulation.py (formula blender, dose conversions).                *)
(*                                                                         *)
(* Numbers.  The code computes in Python floats (IEEE 754 binary64,        *)
(* round-to-nearest-even).  A float is modelled as a mantissa of MantBits  *)
(* bits and an exponent, and every arithmetic operation is the exact       *)
(* operation followed by one rounding to MantBits significant bits, ties   *)
(* to even.  The exponent is unbounded: the inputs stay far from overflow  *)
(* and underflow.                                                          *)
(***************************************************************************)
EXTENDS Integers, Sequences, FiniteSets

VARIABLES
    METRIC, AVOIRDUPOIS, APOTHECARY, HOUSEHOLD, HISTORICAL,
        \* core/data_loader.py: the five parsed unit files
    SOLVENTS,   \* core/data_loader.py: the parsed solvent reference data
    REGISTRY,   \* core/units.py _REGISTRY: insertion-ordered dict, key -> UnitInfo
    pc,         \* "import" before core/units.py line 118 has run, then "ready"
    call        \* the last engine call: its operation, arguments and outcome

dataVars == <<METRIC, AVOIRDUPOIS, APOTHECARY, HOUSEHOLD, HISTORICAL, SOLVENTS>>
vars == <<METRIC, AVOIRDUPOIS, APOTHECARY, HOUSEHOLD, HISTORICAL, SOLVENTS, REGISTRY, pc, call>>

---------------------------------------------------------------------------
(* Floating point                                                          *)

\* Significant bits of the modelled float format (binary64 has 53).
MantBits == 10

RECURSIVE Pow2(_)
Pow2(k) == IF k = 0 THEN 1 ELSE 2 * Pow2(k - 1)

Abs(x) == IF x < 0 THEN -x ELSE x
Sign(x) == IF x < 0 THEN -1 ELSE IF x > 0 THEN 1 ELSE 0

\* The number of bits of n >= 0.
RECURSIVE BitLen(_)
BitLen(n) == IF n = 0 THEN 0 ELSE 1 + BitLen(n \div 2)

\* A float is [m |-> mantissa, e |-> exponent], denoting m * 2^e, with
\* 2^(MantBits-1) <= |m| < 2^MantBits; zero is [m |-> 0, e |-> 0].
Zero == [m |-> 0, e |-> 0]
Neg(x) == [m |-> -x.m, e |-> x.e]

\* The float nearest to sign * (n + s) * 2^e, ties to even, where n > 0 and s
\* is a fraction in [0, 1) of which only sticky = (s > 0) is known.
Round(sign, n, e, sticky) ==
    LET len == BitLen(n)
    IN  IF len <= MantBits
        THEN [m |-> sign * n * Pow2(MantBits - len), e |-> e - (MantBits - len)]
        ELSE LET shift == len - MantBits
                 q == n \div Pow2(shift)
                 r == n % Pow2(shift)
                 half == Pow2(shift - 1)
                 up == r > half \/ (r = half /\ (sticky \/ q % 2 = 1))
                 q2 == IF up THEN q + 1 ELSE q
             IN  IF q2 = Pow2(MantBits)
                 THEN [m |-> sign * Pow2(MantBits - 1), e |-> e + shift + 1]
                 ELSE [m |-> sign * q2, e |-> e + shift]

\* Python float  x * y.
FMul(x, y) ==
    IF x.m = 0 \/ y.m = 0 THEN Zero
    ELSE Round(Sign(x.m) * Sign(y.m), Abs(x.m) * Abs(y.m), x.e + y.e, FALSE)

\* Python float  x / y  for y # 0.
FDiv(x, y) ==
    IF x.m = 0 THEN Zero
    ELSE LET n == Abs(x.m) * Pow2(MantBits + 1)
         IN  Round(Sign(x.m) * Sign(y.m), n \div Abs(y.m), x.e - y.e - (MantBits + 1),
                   n % Abs(y.m) # 0)

\* Python float  x + y.  An operand more than MantBits + 1 binary places below
\* the other is less than half a unit in the other's last place.
FAdd(x, y) ==
    IF x.m = 0 THEN y
    ELSE IF y.m = 0 THEN x
    ELSE LET hi == IF x.e >= y.e THEN x ELSE y
             lo == IF x.e >= y.e THEN y ELSE x
             n == hi.m * Pow2(hi.e - lo.e) + lo.m
         IN  IF hi.e - lo.e > MantBits + 1 THEN hi
             ELSE IF n = 0 THEN Zero
             ELSE Round(Sign(n), Abs(n), lo.e, FALSE)

\* Python float  x - y.
FSub(x, y) == FAdd(x, Neg(y))

\* An integer literal, and the decimal literal n/d (d > 0), as the floats
\* Python reads them as.
F(k) == IF k = 0 THEN Zero ELSE Round(Sign(k), Abs(k), 0, FALSE)
Fl(n, d) ==
    IF n = 0 THEN Zero
    ELSE LET t == MantBits + 2 + BitLen(d)
             s == IF t > BitLen(Abs(n)) THEN t - BitLen(Abs(n)) ELSE 0
             scaled == Abs(n) * Pow2(s)
         IN  Round(Sign(n), scaled \div d, -s, scaled % d # 0)

\* Python float  x < y  and  x <= y.
Lt(x, y) ==
    IF Sign(x.m) # Sign(y.m) THEN Sign(x.m) < Sign(y.m)
    ELSE IF x.m = 0 THEN FALSE
    ELSE IF x.e # y.e THEN (IF x.m > 0 THEN x.e < y.e ELSE x.e > y.e)
    ELSE x.m < y.m
Le(x, y) == x = y \/ Lt(x, y)

\* Python max(x, y) on floats.
FMax(x, y) == IF Lt(x, y) THEN y ELSE x

\* |x - y| is at most k unit roundoffs (k * 2^-MantBits) of |y|, exactly, for
\* k < 2^(MantBits-1): floats whose exponents differ by 2 or more are not.
Close(x, y, k) ==
    IF y.m = 0 THEN x.m = 0
    ELSE IF x.m = 0 \/ Abs(x.e - y.e) > 1 THEN FALSE
    ELSE LET low == IF x.e < y.e THEN x.e ELSE y.e
             xm == x.m * Pow2(x.e - low)
             ym == y.m * Pow2(y.e - low)
         IN  Abs(xm - ym) * Pow2(MantBits) <= k * Abs(ym)

\* |x - y| is at most k unit roundoffs of |scale|, the difference and the
\* products taken in floating point.
Within(x, y, scale, k) ==
    LET d == FSub(x, y)
        size == [m |-> Abs(d.m), e |-> d.e]
        unit == [m |-> Abs(scale.m), e |-> scale.e - MantBits]
    IN  Le(size, FMul(F(k), unit))

\* x + y <= z in exact arithmetic, for operands of like magnitude.
ExactSumLe(x, y, z) ==
    LET low == IF x.e <= y.e /\ x.e <= z.e THEN x.e ELSE IF y.e <= z.e THEN y.e ELSE z.e
    IN  x.m * Pow2(x.e - low) + y.m * Pow2(y.e - low) <= z.m * Pow2(z.e - low)

NoCall == [op |-> "none"]

---------------------------------------------------------------------------
(* core/units.py                                                           *)

\* Python None where a string or a UnitInfo is optional.
NoneStr == "None"
NoUnit == [none |-> TRUE]

\* str.lower() on the strings of the model: "Gram", "G" and "mL" are the
\* ones with upper-case letters.
Lower(s) == CASE s = "Gram" -> "gram" [] s = "G" -> "g" [] s = "mL" -> "ml" [] OTHER -> s

\* dict.get(key, default) on a parsed JSON object.
Get(entry, key, default) == IF key \in DOMAIN entry THEN entry[key] ELSE default

\* _REGISTRY is a Python dict: a sequence of [key, info] in insertion order,
\* no key twice.  key in dict, dict.get(key), dict[key] = info.
DictHas(reg, key) == \E i \in 1..Len(reg) : reg[i].key = key
DictGet(reg, key) ==
    IF DictHas(reg, key)
    THEN reg[CHOOSE i \in 1..Len(reg) : reg[i].key = key].info
    ELSE NoUnit
DictSet(reg, key, info) ==
    IF DictHas(reg, key)
    THEN [i \in 1..Len(reg) |-> IF reg[i].key = key THEN [key |-> key, info |-> info] ELSE reg[i]]
    ELSE Append(reg, [key |-> key, info |-> info])

\* _register_units: the UnitInfo built from one entry.  oid is the object's
\* identity: the entry's place in the file it was read from.
UnitInfo(entry, source_system, index) ==
    [ oid |-> <<source_system, index>>,
      unit_name |-> entry.unit_name,
      symbol |-> Get(entry, "symbol", entry.unit_name),
      system |-> Get(entry, "system", source_system),
      unit_type |-> Get(entry, "type", "mass"),
      to_base |-> entry.to_base,
      base_unit |-> Get(entry, "base_unit", "gram"),
      aliases |-> Get(entry, "aliases", <<>>),
      precise |-> Get(entry, "precise", TRUE),
      variance_note |-> Get(entry, "variance_note", NoneStr),
      disambiguation |-> Get(entry, "disambiguation", NoneStr),
      equivalence |-> Get(entry, "equivalence", NoneStr) ]

\* A bug the registry claims must notice: an alias replaces what its key held.
register_alias_overwriting(reg, alias, info) ==
    DictSet(reg, Lower(alias), info)

\* _register_units: one alias, registered only under a key not yet taken.
register_alias(reg, alias, info) ==
    IF DictHas(reg, Lower(alias)) THEN reg ELSE DictSet(reg, Lower(alias), info)

RECURSIVE register_aliases(_, _, _)
register_aliases(reg, aliases, info) ==
    IF aliases = <<>> THEN reg
    ELSE register_aliases(register_alias(reg, Head(aliases), info), Tail(aliases), info)

\* A bug the registry claims must notice: a canonical name already held is kept.
register_name_first_wins(reg, info) ==
    IF DictHas(reg, Lower(info.unit_name)) THEN reg ELSE DictSet(reg, Lower(info.unit_name), info)

\* _register_units: the canonical name, registered unconditionally.
register_name(reg, info) == DictSet(reg, Lower(info.unit_name), info)

\* _register_units: entries index.. of units_data, in order.
RECURSIVE register_units_from(_, _, _, _)
register_units_from(reg, units_data, source_system, index) ==
    IF index > Len(units_data) THEN reg
    ELSE LET info == UnitInfo(units_data[index], source_system, index)
         IN  register_units_from(register_aliases(register_name(reg, info), info.aliases, info),
                                 units_data, source_system, index + 1)

register_units(reg, units_data, source_system) ==
    register_units_from(reg, units_data, source_system, 1)

\* A parsed JSON file is a list, [kind |-> "list", items |-> ...], or an
\* object, [kind |-> "dict"] with or without a "units" member.
JsonList(items) == [kind |-> "list", items |-> items]
JsonUnits(items) == [kind |-> "dict", units |-> items]
JsonObject == [kind |-> "dict"]

\* _build_registry: a family read as a list only (metric, household).
register_list(reg, data, source_system) ==
    IF data.kind = "list" THEN register_units(reg, data.items, source_system) ELSE reg

\* _build_registry: a family read as {"units": [...]} or as a list.
register_dict_or_list(reg, data, source_system) ==
    IF data.kind = "dict" THEN register_units(reg, Get(data, "units", <<>>), source_system)
    ELSE IF data.kind = "list" THEN register_units(reg, data.items, source_system)
    ELSE reg

\* _build_registry: the registry after clear() and the five families in order.
build_registry(metric, avoirdupois, apothecary, household, historical) ==
    LET r1 == register_list(<<>>, metric, "metric")
        r2 == register_dict_or_list(r1, avoirdupois, "avoirdupois")
        r3 == register_dict_or_list(r2, apothecary, "apothecary")
        r4 == register_list(r3, household, "household")
    IN  register_dict_or_list(r4, historical, "historical")

\* get_unit_info
get_unit_info(reg, unit_name) == DictGet(reg, Lower(unit_name))

\* sorted(results, key=to_base) is stable: x goes behind every element whose
\* to_base is not greater.
RECURSIVE insert_sorted(_, _)
insert_sorted(sorted, x) ==
    IF sorted = <<>> THEN <<x>>
    ELSE IF Lt(x.to_base, Head(sorted).to_base) THEN <<x>> \o sorted
    ELSE <<Head(sorted)>> \o insert_sorted(Tail(sorted), x)

RECURSIVE sorted_by_to_base(_)
sorted_by_to_base(results) ==
    IF results = <<>> THEN <<>>
    ELSE insert_sorted(sorted_by_to_base(SubSeq(results, 1, Len(results) - 1)),
                       results[Len(results)])

\* A bug the listing claims must notice: the system filter is not applied.
list_units_keep_any_system(seen, info, unit_type, system) ==
    /\ info.unit_name \notin seen
    /\ unit_type = NoneStr \/ info.unit_type = unit_type

\* list_units: whether the loop appends info, given the names seen so far.
list_units_keep(seen, info, unit_type, system) ==
    /\ info.unit_name \notin seen
    /\ unit_type = NoneStr \/ info.unit_type = unit_type
    /\ system = NoneStr \/ info.system = system

\* list_units: the loop over _REGISTRY.values() from position i.
RECURSIVE list_units_from(_, _, _, _, _, _)
list_units_from(reg, i, seen, results, unit_type, system) ==
    IF i > Len(reg) THEN results
    ELSE IF list_units_keep(seen, reg[i].info, unit_type, system)
    THEN list_units_from(reg, i + 1, seen \cup {reg[i].info.unit_name},
                         Append(results, reg[i].info), unit_type, system)
    ELSE list_units_from(reg, i + 1, seen, results, unit_type, system)

\* list_units
list_units(reg, unit_type, system) ==
    sorted_by_to_base(list_units_from(reg, 1, {}, <<>>, unit_type, system))

\* convert: the warning for one imprecise endpoint, with its variance note or
\* the default text when it has none.
precision_warning(info) ==
    [ unit |-> info.unit_name,
      note |-> IF info.variance_note = NoneStr THEN "Values are approximate."
               ELSE info.variance_note ]

\* A bug the warning claim must notice: only the target unit is looked at.
precision_warnings_target_only(from_info, to_info) ==
    IF to_info.precise THEN <<>> ELSE <<precision_warning(to_info)>>

\* convert: the precision warnings, the source unit's first.
precision_warnings(from_info, to_info) ==
    (IF from_info.precise THEN <<>> ELSE <<precision_warning(from_info)>>)
    \o (IF to_info.precise THEN <<>> ELSE <<precision_warning(to_info)>>)

\* A bug the round-trip claim must notice: the value stays in the base unit.
convert_value_left_in_base(value, from_info, to_info) ==
    FMul(value, from_info.to_base)

\* A bug the path claim must notice: the source unit's factor is not applied.
convert_value_skips_source(value, from_info, to_info) ==
    FDiv(value, to_info.to_base)

\* convert: source -> base -> target.
convert_value(value, from_info, to_info) ==
    LET base_value == FMul(value, from_info.to_base)
    IN  FDiv(base_value, to_info.to_base)

\* A bug the conversion claims must notice: units of different types convert.
convert_types_differ_unchecked(from_info, to_info) == FALSE

\* convert: from_info.unit_type != to_info.unit_type
convert_types_differ(from_info, to_info) == from_info.unit_type # to_info.unit_type

\* convert: the ConversionResult it returns, or the error it raises.
convert(reg, value, from_unit, to_unit) ==
    LET from_info == get_unit_info(reg, from_unit)
        to_info == get_unit_info(reg, to_unit)
    IN  IF from_info = NoUnit
        THEN [status |-> "ValueError", message |-> "Unknown unit", unit |-> from_unit]
        ELSE IF to_info = NoUnit
        THEN [status |-> "ValueError", message |-> "Unknown unit", unit |-> to_unit]
        ELSE IF convert_types_differ(from_info, to_info)
        THEN [status |-> "ValueError", message |-> "Cannot convert", unit |-> to_unit]
        ELSE IF to_info.to_base = Zero
        THEN [status |-> "ZeroDivisionError"]
        ELSE [ status |-> "ok",
               value |-> convert_value(value, from_info, to_info),
               unit |-> to_info.unit_name,
               symbol |-> to_info.symbol,
               system |-> to_info.system,
               unit_type |-> to_info.unit_type,
               warnings |-> precision_warnings(from_info, to_info) ]

\* convert_all: the loop over the targets from position i; an error raised by
\* convert ends the call.
RECURSIVE convert_all_from(_, _, _, _, _, _, _)
convert_all_from(reg, value, from_unit, from_info, targets, i, results) ==
    IF i > Len(targets) THEN [status |-> "ok", results |-> results]
    ELSE IF targets[i].unit_name = from_info.unit_name
    THEN convert_all_from(reg, value, from_unit, from_info, targets, i + 1, results)
    ELSE LET result == convert(reg, value, from_unit, targets[i].unit_name)
         IN  IF result.status # "ok" THEN result
             ELSE convert_all_from(reg, value, from_unit, from_info, targets, i + 1,
                                   Append(results, result))

\* convert_all
convert_all(reg, value, from_unit, target_system) ==
    LET from_info == get_unit_info(reg, from_unit)
    IN  IF from_info = NoUnit
        THEN [status |-> "ValueError", message |-> "Unknown unit", unit |-> from_unit]
        ELSE convert_all_from(reg, value, from_unit, from_info,
                              list_units(reg, from_info.unit_type, target_system), 1, <<>>)

---------------------------------------------------------------------------
(* core/solvents.py                                                        *)

\* _get_density_table: the table of the loaded data, [] when the data is no
\* object or has no table.
get_density_table(solvents) ==
    IF solvents.kind = "dict" THEN Get(solvents, "ethanol_water_density_table", <<>>)
    ELSE <<>>

\* Python None where a table entry is optional.
NoEntry == [none |-> TRUE]

\* lookup_ethanol_density: the fallback without a table.
density_fallback(ethanol_pct_vv) ==
    FSub(F(1), FMul(FDiv(ethanol_pct_vv, F(100)), FSub(F(1), Fl(7893, 10000))))

\* A bug the interpolation claim must notice: the slope is applied to the
\* upper sample's density alone.
density_interpolation_no_difference(ethanol_pct_vv, lower, upper) ==
    LET fraction == FDiv(FSub(ethanol_pct_vv, lower.ethanol_pct_vv),
                         FSub(upper.ethanol_pct_vv, lower.ethanol_pct_vv))
    IN  FAdd(lower.density_g_ml, FMul(fraction, upper.density_g_ml))

\* lookup_ethanol_density: the linear interpolation between the brackets.
density_interpolation(ethanol_pct_vv, lower, upper) ==
    LET fraction == FDiv(FSub(ethanol_pct_vv, lower.ethanol_pct_vv),
                         FSub(upper.ethanol_pct_vv, lower.ethanol_pct_vv))
    IN  FAdd(lower.density_g_ml,
             FMul(fraction, FSub(upper.density_g_ml, lower.density_g_ml)))

\* A bug the fallback claim must notice: an empty table is searched.
density_table_missing_unchecked(table) == FALSE

\* lookup_ethanol_density: not table
density_table_missing(table) == table = <<>>

\* lookup_ethanol_density: the scan for the bracketing entries from entry i,
\* and what is returned after it.
RECURSIVE density_scan(_, _, _, _, _)
density_scan(table, ethanol_pct_vv, i, lower, upper) ==
    IF i > Len(table)
    THEN IF lower = NoEntry /\ upper # NoEntry THEN upper.density_g_ml
         ELSE IF upper = NoEntry /\ lower # NoEntry THEN lower.density_g_ml
         ELSE IF lower = NoEntry /\ upper = NoEntry THEN F(1)
         ELSE density_interpolation(ethanol_pct_vv, lower, upper)
    ELSE LET entry == table[i]
             pct == entry.ethanol_pct_vv
         IN  IF pct = ethanol_pct_vv THEN entry.density_g_ml
             ELSE density_scan(table, ethanol_pct_vv, i + 1,
                    IF Lt(pct, ethanol_pct_vv)
                       /\ (lower = NoEntry \/ Lt(lower.ethanol_pct_vv, pct))
                    THEN entry ELSE lower,
                    IF Lt(ethanol_pct_vv, pct)
                       /\ (upper = NoEntry \/ Lt(pct, upper.ethanol_pct_vv))
                    THEN entry ELSE upper)

\* lookup_ethanol_density: the density it returns, or the error it raises.
lookup_ethanol_density(solvents, ethanol_pct_vv) ==
    IF Lt(ethanol_pct_vv, Zero) \/ Lt(F(100), ethanol_pct_vv)
    THEN [status |-> "ValueError", message |-> "Ethanol percentage must be 0-100"]
    ELSE LET table == get_density_table(solvents)
         IN  IF density_table_missing(table)
             THEN [status |-> "ok", value |-> density_fallback(ethanol_pct_vv)]
             ELSE [status |-> "ok",
                   value |-> density_scan(table, ethanol_pct_vv, 1, NoEntry, NoEntry)]

\* convert_percentage: substance_densities.get(substance, 1.0)
substance_densities(substance) ==
    IF substance = "ethanol" THEN Fl(7893, 10000)
    ELSE IF substance = "glycerin" THEN Fl(1261, 1000)
    ELSE F(1)

\* Python None where the reference percentage is optional.
NoPct == [m |-> 0, e |-> 1]

\* A bug the round-trip claim must notice: the projection to w/w leaves out
\* the mixture density that the way from w/w put in.
convert_conventions_ww_unscaled(value, from_convention, to_convention, substance_density, mixture_density) ==
    LET known == {"vv", "wv", "ww"}
        vv_value == IF from_convention = "vv" THEN value
                    ELSE IF from_convention = "wv" THEN FDiv(value, substance_density)
                    ELSE FDiv(FMul(value, mixture_density), substance_density)
    IN  IF from_convention \notin known
        THEN [status |-> "ValueError", message |-> "Unknown convention", convention |-> from_convention]
        ELSE IF to_convention = "vv" THEN [status |-> "ok", value |-> vv_value]
        ELSE IF to_convention = "wv" THEN [status |-> "ok", value |-> FMul(vv_value, substance_density)]
        ELSE IF to_convention = "ww"
        THEN [status |-> "ok", value |-> FMul(vv_value, substance_density)]
        ELSE [status |-> "ValueError", message |-> "Unknown convention", convention |-> to_convention]

\* convert_percentage: the value in the target convention, given the
\* densities of the substance and of the mixture.
convert_conventions(value, from_convention, to_convention, substance_density, mixture_density) ==
    LET known == {"vv", "wv", "ww"}
        vv_value == IF from_convention = "vv" THEN value
                    ELSE IF from_convention = "wv" THEN FDiv(value, substance_density)
                    ELSE FDiv(FMul(value, mixture_density), substance_density)
    IN  IF from_convention \notin known
        THEN [status |-> "ValueError", message |-> "Unknown convention", convention |-> from_convention]
        ELSE IF to_convention = "vv" THEN [status |-> "ok", value |-> vv_value]
        ELSE IF to_convention = "wv" THEN [status |-> "ok", value |-> FMul(vv_value, substance_density)]
        ELSE IF to_convention = "ww"
        THEN [status |-> "ok", value |-> FDiv(FMul(vv_value, substance_density), mixture_density)]
        ELSE [status |-> "ValueError", message |-> "Unknown convention", convention |-> to_convention]

\* convert_percentage: the percentage it returns, or the ValueError it raises.
convert_percentage(solvents, value, from_convention, to_convention, substance, ethanol_pct_vv) ==
    IF from_convention = to_convention THEN [status |-> "ok", value |-> value]
    ELSE LET substance_density == substance_densities(substance)
             ref_pct == IF ethanol_pct_vv # NoPct THEN ethanol_pct_vv ELSE value
             mixture == IF substance = "ethanol" THEN lookup_ethanol_density(solvents, ref_pct)
                        ELSE [status |-> "ok", value |-> F(1)]
         IN  IF mixture.status # "ok" THEN mixture
             ELSE convert_conventions(value, from_convention, to_convention,
                                      substance_density, mixture.value)

\* A bug the menstruum claims must notice: the ethanol is not taken off.
water_remainder_no_ethanol(total_volume, glycerin_ml, ethanol_ml) ==
    FSub(total_volume, glycerin_ml)

\* calculate_menstruum, "water is the remainder".
water_remainder(total_volume, glycerin_ml, ethanol_ml) ==
    FSub(FSub(total_volume, glycerin_ml), ethanol_ml)

\* calculate_menstruum: the MenstruumResult it returns.
calculate_menstruum(herb_weight_g, ratio, ethanol_source_pct, target_alcohol_pct, glycerin_pct) ==
    LET total_volume == FMul(herb_weight_g, ratio)
        glycerin_ml == FMul(total_volume, FDiv(glycerin_pct, F(100)))
        ethanol_ml == FMul(total_volume, FDiv(target_alcohol_pct, F(100)))
        water_ml == water_remainder(total_volume, glycerin_ml, ethanol_ml)
        over == Lt(water_ml, Zero)
    IN  [ status |-> "ok",
          total_volume_ml |-> total_volume,
          ethanol_ml |-> ethanol_ml,
          water_ml |-> IF over THEN Zero ELSE water_ml,
          glycerin_ml |-> glycerin_ml,
          herb_weight_g |-> herb_weight_g,
          ratio |-> ratio,
          target_alcohol_pct |-> target_alcohol_pct,
          ethanol_source_pct |-> ethanol_source_pct,
          glycerin_pct |-> glycerin_pct,
          warnings |-> IF over THEN <<"exceed 100% of the menstruum">> ELSE <<>> ]

\* A bug the agreement claim must notice: the pure ethanol is taken for the
\* volume of the source.
ethanol_source_ml_undiluted(r) == r.ethanol_ml

\* MenstruumResult.ethanol_source_ml (property).
ethanol_source_ml(r) ==
    IF Le(r.ethanol_source_pct, Zero) THEN Zero
    ELSE FDiv(r.ethanol_ml, FDiv(r.ethanol_source_pct, F(100)))

\* A bug the derived-quantity claim must notice: the difference is returned
\* as it comes.
added_water_ml_unclamped(r) ==
    FSub(r.water_ml, FSub(ethanol_source_ml(r), r.ethanol_ml))

\* MenstruumResult.added_water_ml (property).
added_water_ml(r) ==
    LET water_in_source == FSub(ethanol_source_ml(r), r.ethanol_ml)
    IN  FMax(Zero, FSub(r.water_ml, water_in_source))

\* A bug the dilution claims must notice: the parts are taken of the source
\* concentration's complement instead of the total parts.
dilution_share_of_hundred(total_volume_ml, parts, total_parts) ==
    FMul(total_volume_ml, FDiv(parts, F(100)))

\* A bug the alcohol-conservation claim must notice: the share is not taken
\* of the total volume.
dilution_share_unscaled(total_volume_ml, parts, total_parts) == FDiv(parts, total_parts)

\* pearson_square: the volume a number of parts stands for.
dilution_share(total_volume_ml, parts, total_parts) ==
    FMul(total_volume_ml, FDiv(parts, total_parts))

\* A bug the failure claim must notice: the target is compared with the
\* source before the source is checked.
pearson_square_target_checked_first(source_concentration, target_concentration, total_volume_ml) ==
    IF Lt(source_concentration, target_concentration)
    THEN [status |-> "ValueError", message |-> "You cannot concentrate alcohol by dilution."]
    ELSE IF Le(source_concentration, Zero)
    THEN [status |-> "ValueError", message |-> "Source concentration must be greater than 0%."]
    ELSE IF Lt(target_concentration, Zero)
    THEN [status |-> "ValueError", message |-> "Target concentration cannot be negative."]
    ELSE IF target_concentration = Zero
    THEN [ status |-> "ok",
           total_volume_ml |-> total_volume_ml,
           source_volume_ml |-> Zero,
           diluent_volume_ml |-> total_volume_ml,
           source_concentration |-> source_concentration,
           target_concentration |-> Zero,
           warnings |-> <<>> ]
    ELSE LET parts_source == target_concentration
             parts_diluent == FSub(source_concentration, target_concentration)
             total_parts == FAdd(parts_source, parts_diluent)
         IN  [ status |-> "ok",
               total_volume_ml |-> total_volume_ml,
               source_volume_ml |-> dilution_share(total_volume_ml, parts_source, total_parts),
               diluent_volume_ml |-> dilution_share(total_volume_ml, parts_diluent, total_parts),
               source_concentration |-> source_concentration,
               target_concentration |-> target_concentration,
               warnings |-> <<>> ]

\* pearson_square: the DilutionResult it returns, or the ValueError it raises.
pearson_square(source_concentration, target_concentration, total_volume_ml) ==
    IF Le(source_concentration, Zero)
    THEN [status |-> "ValueError", message |-> "Source concentration must be greater than 0%."]
    ELSE IF Lt(source_concentration, target_concentration)
    THEN [status |-> "ValueError", message |-> "You cannot concentrate alcohol by dilution."]
    ELSE IF Lt(target_concentration, Zero)
    THEN [status |-> "ValueError", message |-> "Target concentration cannot be negative."]
    ELSE IF target_concentration = Zero
    THEN [ status |-> "ok",
           total_volume_ml |-> total_volume_ml,
           source_volume_ml |-> Zero,
           diluent_volume_ml |-> total_volume_ml,
           source_concentration |-> source_concentration,
           target_concentration |-> Zero,
           warnings |-> <<>> ]
    ELSE LET parts_source == target_concentration
             parts_diluent == FSub(source_concentration, target_concentration)
             total_parts == FAdd(parts_source, parts_diluent)
         IN  [ status |-> "ok",
               total_volume_ml |-> total_volume_ml,
               source_volume_ml |-> dilution_share(total_volume_ml, parts_source, total_parts),
               diluent_volume_ml |-> dilution_share(total_volume_ml, parts_diluent, total_parts),
               source_concentration |-> source_concentration,
               target_concentration |-> target_concentration,
               warnings |-> <<>> ]

---------------------------------------------------------------------------
(* core/formulation.py                                                      *)

\* Python None where a float is optional; no float is [m |-> 0, e |-> 1].
None == [m |-> 0, e |-> 1]
IsNone(x) == x.m = 0 /\ x.e # 0

\* Python truth value of an Optional[float]: None and 0.0 are false.
Truthy(x) == ~IsNone(x) /\ x.m # 0

\* Python sum() of a sequence of floats: from the int 0, left to right.
RECURSIVE SumFrom(_, _)
SumFrom(acc, xs) == IF xs = <<>> THEN acc ELSE SumFrom(FAdd(acc, Head(xs)), Tail(xs))
FSum(xs) == SumFrom(Zero, xs)

\* A bug the formula claims must notice: the default volume replaces a given one.
effective_volume_default_first(target_volume_ml, bottle_size_ml) ==
    F(100)

\* build_formula: effective_volume = target_volume_ml or bottle_size_ml or 100.0
effective_volume(target_volume_ml, bottle_size_ml) ==
    IF Truthy(target_volume_ml) THEN target_volume_ml
    ELSE IF Truthy(bottle_size_ml) THEN bottle_size_ml
    ELSE F(100)

\* A bug the compromise claim must notice: every herb counts alike, whatever
\* its parts.
compromise_alcohol_unweighted(herbs, total_parts) ==
    FSum([i \in 1..Len(herbs) |-> FMul(herbs[i].alcohol_pct, FDiv(F(1), F(Len(herbs))))])

\* build_formula: the compromise alcohol % weighted by parts.
compromise_alcohol(herbs, total_parts) ==
    FSum([i \in 1..Len(herbs) |-> FMul(herbs[i].alcohol_pct, FDiv(herbs[i].parts, total_parts))])

\* build_formula: the soft failure's FormulaResult.
EmptyFormula(warning) ==
    [ status |-> "ok", herbs |-> <<>>, total_herb_weight_g |-> Zero,
      total_menstruum_ml |-> Zero, compromise_alcohol_pct |-> Zero,
      warnings |-> <<warning>> ]

\* build_formula: the ScaledEntry of one herb.
ScaledEntry(herb, total_parts, volume) ==
    LET proportion == FDiv(herb.parts, total_parts)
        herb_menstruum_ml == FMul(volume, proportion)
    IN  [ name |-> herb.name, parts |-> herb.parts,
          weight_g |-> FDiv(herb_menstruum_ml, herb.ratio),
          menstruum_ml |-> herb_menstruum_ml,
          ratio |-> herb.ratio, alcohol_pct |-> herb.alcohol_pct ]

\* build_formula: the FormulaResult it returns, or the ZeroDivisionError that
\* herb_menstruum_ml / herb.ratio raises for a herb of ratio 0.
build_formula(herbs, target_volume_ml, bottle_size_ml) ==
    IF herbs = <<>> THEN EmptyFormula("No herbs in formula.")
    ELSE LET total_parts == FSum([i \in 1..Len(herbs) |-> herbs[i].parts])
         IN  IF Le(total_parts, Zero)
             THEN EmptyFormula("Total parts must be greater than zero.")
             ELSE IF \E i \in 1..Len(herbs) : herbs[i].ratio = Zero
             THEN [status |-> "ZeroDivisionError"]
             ELSE LET volume == effective_volume(target_volume_ml, bottle_size_ml)
                      scaled == [i \in 1..Len(herbs) |-> ScaledEntry(herbs[i], total_parts, volume)]
                  IN  [ status |-> "ok",
                        herbs |-> scaled,
                        total_herb_weight_g |-> FSum([i \in 1..Len(herbs) |-> scaled[i].weight_g]),
                        total_menstruum_ml |-> FSum([i \in 1..Len(herbs) |-> scaled[i].menstruum_ml]),
                        compromise_alcohol_pct |-> compromise_alcohol(herbs, total_parts),
                        warnings |-> <<>> ]

\* A bug the allocation claim must notice: the parts are not taken as a share
\* of the total.
scaled_weight_undivided(p, total_parts, target_total_g) == FMul(p, target_total_g)

\* scale_parts: (p / total_parts) * target_total_g
scaled_weight(p, total_parts, target_total_g) == FMul(FDiv(p, total_parts), target_total_g)

\* scale_parts: the (name, weight_g) pairs it returns for (name, parts) pairs.
scale_parts(parts, target_total_g) ==
    LET total_parts == FSum([i \in 1..Len(parts) |-> parts[i][2]])
    IN  IF Le(total_parts, Zero)
        THEN [status |-> "ok", value |-> [i \in 1..Len(parts) |-> <<parts[i][1], Zero>>]]
        ELSE [status |-> "ok",
              value |-> [i \in 1..Len(parts) |->
                            <<parts[i][1], scaled_weight(parts[i][2], total_parts, target_total_g)>>]]

RatioError == [status |-> "ValueError", message |-> "Extraction ratio must be positive."]

\* A bug the dose claims must notice: the tincture volume is multiplied by the ratio.
dry_equivalent_times_ratio(tincture_ml, ratio) ==
    IF Le(ratio, Zero) THEN RatioError
    ELSE [status |-> "ok", value |-> FMul(tincture_ml, ratio)]

\* dry_equivalent: the weight it returns, or the ValueError it raises.
dry_equivalent(tincture_ml, ratio) ==
    IF Le(ratio, Zero) THEN RatioError
    ELSE [status |-> "ok", value |-> FDiv(tincture_ml, ratio)]

\* tincture_from_dose: the volume it returns, or the ValueError it raises.
tincture_from_dose(target_herb_mg, ratio) ==
    IF Le(ratio, Zero) THEN RatioError
    ELSE LET target_herb_g == FDiv(target_herb_mg, F(1000))
         IN  [status |-> "ok", value |-> FMul(target_herb_g, ratio)]

---------------------------------------------------------------------------
(* core/validation.py                                                      *)

\* ValidationResult of a violated rule and of an advisory.
ErrorEntry(field_name, message) ==
    [valid |-> FALSE, field_name |-> field_name, message |-> message, severity |-> "error"]
WarningEntry(field_name, message) ==
    [valid |-> TRUE, field_name |-> field_name, message |-> message, severity |-> "warning"]

\* A bug the validation claim must notice: advisories are added whatever the
\* errors.
no_invalid_unchecked(results) == TRUE

\* validate_menstruum_inputs: not any(not r.valid for r in results)
no_invalid(results) == \A i \in 1..Len(results) : results[i].valid

\* validate_menstruum_inputs: the list of ValidationResult it returns.
validate_menstruum_inputs(herb_g, ratio, ethanol_source, target_alc, glycerin_pct) ==
    LET r1 == IF Le(herb_g, Zero)
              THEN <<ErrorEntry("Herb weight", "Herb weight must be greater than zero.")>>
              ELSE <<>>
        r2 == IF Lt(ratio, F(1))
              THEN Append(r1, ErrorEntry("Extraction ratio", "Extraction ratio must be at least 1."))
              ELSE r1
        r3 == IF Le(ethanol_source, Zero)
              THEN Append(r2, ErrorEntry("Ethanol source",
                                         "Ethanol source concentration must be greater than 0%."))
              ELSE r2
        r4 == IF Lt(ethanol_source, target_alc) /\ Lt(Zero, ethanol_source)
              THEN Append(r3, ErrorEntry("Target alcohol %",
                                         "You cannot concentrate alcohol by dilution."))
              ELSE r3
        r5 == IF Lt(target_alc, Zero)
              THEN Append(r4, ErrorEntry("Target alcohol %",
                                         "Target alcohol percentage cannot be negative."))
              ELSE r4
        r6 == IF Lt(glycerin_pct, Zero)
              THEN Append(r5, ErrorEntry("Glycerin %", "Glycerin percentage cannot be negative."))
              ELSE r5
        r7 == IF Lt(F(100), FAdd(glycerin_pct, target_alc))
              THEN Append(r6, ErrorEntry("Solvent percentages", "exceeds 100%"))
              ELSE r6
        r8 == IF Lt(Zero, target_alc) /\ Lt(F(70), target_alc) /\ no_invalid(r7)
              THEN Append(r7, WarningEntry("Target alcohol %", "higher than most tinctures"))
              ELSE r7
    IN  IF Lt(Zero, target_alc) /\ Lt(target_alc, F(20)) /\ no_invalid(r8)
        THEN Append(r8, WarningEntry("Target alcohol %",
                                     "below the typical preservation threshold"))
        ELSE r8

---------------------------------------------------------------------------
(* The calls                                                               *)

\* The inputs the solvent calls are drawn from.
HerbWeights == {F(1), F(3), F(100)}
Ratios == {F(0), F(1), F(5)}
SourcePcts == {F(0), F(50), F(94)}
AlcoholPcts == {F(0), F(10), F(20), F(40), F(60), F(94), F(100)}
GlycerinPcts == {F(0), F(10), F(15), F(50), F(90)}
Concentrations == {F(-1), F(0), F(1), F(2), F(3), F(40), F(50), F(95)}
Volumes == {F(0), F(1), F(7), F(100)}

\* The caller drops the result it was handed; the engine keeps no reference.
Return ==
    /\ call # NoCall
    /\ call' = NoCall
    /\ UNCHANGED <<dataVars, REGISTRY, pc>>

CalculateMenstruum ==
    /\ call = NoCall
    /\ \E h \in HerbWeights, r \in Ratios, s \in SourcePcts, t \in AlcoholPcts, g \in GlycerinPcts :
        LET result == calculate_menstruum(h, r, s, t, g)
        IN  call' = [op |-> "calculate_menstruum", ratio |-> r, validated |-> FALSE,
                     result |-> result,
                     ethanol_source_ml |-> ethanol_source_ml(result),
                     added_water_ml |-> added_water_ml(result)]
    /\ UNCHANGED <<dataVars, REGISTRY, pc>>

PearsonSquare ==
    /\ call = NoCall
    /\ \E s \in Concentrations, t \in Concentrations, v \in Volumes :
        call' = [op |-> "pearson_square", source |-> s, target |-> t, total |-> v,
                 result |-> pearson_square(s, t, v)]
    /\ UNCHANGED <<dataVars, REGISTRY, pc>>

\* The unit files are missing (data_loader's defaults); every call of
\* core/solvents.py and core/formulation.py is open.
InitIdle ==
    /\ METRIC = JsonList(<<>>) /\ AVOIRDUPOIS = JsonObject /\ APOTHECARY = JsonObject
    /\ HOUSEHOLD = JsonList(<<>>) /\ HISTORICAL = JsonObject
    /\ SOLVENTS = JsonObject
    /\ REGISTRY = <<>>
    /\ pc = "ready"
    /\ call = NoCall

\* The inputs the menstruum form is validated on.
FormHerbWeights == {F(0), F(100)}
FormRatios == {Fl(1, 2), F(1), F(5)}
FormSourcePcts == {F(0), F(50), F(94)}
FormAlcoholPcts == {F(-1), F(0), F(10), F(40), F(80)}
FormGlycerinPcts == {F(-1), F(0), F(10), F(50)}

ValidateMenstruumInputs ==
    /\ call = NoCall
    /\ \E h \in FormHerbWeights, r \in FormRatios, s \in FormSourcePcts, t \in FormAlcoholPcts, g \in FormGlycerinPcts :
        call' = [op |-> "validate_menstruum_inputs", herb_g |-> h, ratio |-> r,
                 ethanol_source |-> s, target_alc |-> t, glycerin_pct |-> g,
                 result |-> validate_menstruum_inputs(h, r, s, t, g)]
    /\ UNCHANGED <<dataVars, REGISTRY, pc>>

\* tools/menstruum_calc.py _compute: calculate_menstruum on the inputs that
\* validate_menstruum_inputs has just returned no error entry for.
CalculateValidated ==
    /\ call # NoCall /\ call.op = "validate_menstruum_inputs"
    /\ \A i \in 1..Len(call.result) : call.result[i].valid
    /\ LET result == calculate_menstruum(call.herb_g, call.ratio, call.ethanol_source,
                                         call.target_alc, call.glycerin_pct)
       IN  call' = [op |-> "calculate_menstruum", ratio |-> call.ratio, validated |-> TRUE,
                    result |-> result,
                    ethanol_source_ml |-> ethanol_source_ml(result),
                    added_water_ml |-> added_water_ml(result)]
    /\ UNCHANGED <<dataVars, REGISTRY, pc>>

NextSolvents ==
    \/ CalculateMenstruum \/ PearsonSquare \/ ValidateMenstruumInputs \/ CalculateValidated
    \/ Return

SpecSolvents == InitIdle /\ [][NextSolvents]_vars

\* Samples of the ethanol-water density table.
MaxSamples == 3

\* Samples at 0, 20, 40, 60 and 100 %, two of them at 40 %.
SamplePool ==
    { [ethanol_pct_vv |-> F(0), density_g_ml |-> F(1)],
      [ethanol_pct_vv |-> F(20), density_g_ml |-> Fl(9686, 10000)],
      [ethanol_pct_vv |-> F(40), density_g_ml |-> Fl(9352, 10000)],
      [ethanol_pct_vv |-> F(40), density_g_ml |-> Fl(94, 100)],
      [ethanol_pct_vv |-> F(60), density_g_ml |-> Fl(8911, 10000)],
      [ethanol_pct_vv |-> F(100), density_g_ml |-> Fl(7893, 10000)] }

\* A solvents file with the given density table.
JsonSolvents(table) == [kind |-> "dict", ethanol_water_density_table |-> table]

\* The solvent data: missing (the default {}), a JSON array, or an object
\* with a table of at most MaxSamples samples in any order, or none.
SolventFiles ==
    {JsonObject, JsonList(<<>>)}
    \cup {JsonSolvents(table) : table \in UNION {[1..n -> SamplePool] : n \in 0..MaxSamples}}

InitSolventData ==
    /\ METRIC = JsonList(<<>>) /\ AVOIRDUPOIS = JsonObject /\ APOTHECARY = JsonObject
    /\ HOUSEHOLD = JsonList(<<>>) /\ HISTORICAL = JsonObject
    /\ SOLVENTS \in SolventFiles
    /\ REGISTRY = <<>>
    /\ pc = "ready"
    /\ call = NoCall

EthanolPcts == {F(-1), F(0), F(10), F(20), F(30), F(40), F(50), F(100), F(101)}

LookupEthanolDensity ==
    /\ pc = "ready" /\ call = NoCall
    /\ \E p \in EthanolPcts :
        call' = [op |-> "lookup_ethanol_density", ethanol_pct_vv |-> p,
                 result |-> lookup_ethanol_density(SOLVENTS, p)]
    /\ UNCHANGED <<dataVars, REGISTRY, pc>>

Conventions == {"vv", "wv", "ww", "xx"}
Percentages == {F(0), F(15), F(40), F(100), F(150)}
Substances == {"ethanol", "glycerin"}
ReferencePcts == {NoPct, F(30)}

ConvertPercentage ==
    /\ pc = "ready" /\ call = NoCall
    /\ \E v \in Percentages, f \in Conventions, t \in Conventions, s \in Substances, p \in ReferencePcts :
        call' = [op |-> "convert_percentage", value |-> v, from_convention |-> f,
                 to_convention |-> t, substance |-> s, ethanol_pct_vv |-> p,
                 origin_value |-> None,
                 result |-> convert_percentage(SOLVENTS, v, f, t, s, p)]
    /\ UNCHANGED <<dataVars, REGISTRY, pc>>

\* convert_percentage on the value a first convert_percentage just returned,
\* back to the convention it came from, for the same substance and reference
\* percentage: convert_percentage(convert_percentage(x, a, b), b, a).
ConvertPercentageBack ==
    /\ pc = "ready"
    /\ call.op = "convert_percentage" /\ IsNone(call.origin_value)
    /\ call.result.status = "ok"
    /\ call' = [op |-> "convert_percentage", value |-> call.result.value,
                from_convention |-> call.to_convention,
                to_convention |-> call.from_convention,
                substance |-> call.substance, ethanol_pct_vv |-> call.ethanol_pct_vv,
                origin_value |-> call.value,
                result |-> convert_percentage(SOLVENTS, call.result.value, call.to_convention,
                                              call.from_convention, call.substance,
                                              call.ethanol_pct_vv)]
    /\ UNCHANGED <<dataVars, REGISTRY, pc>>

NextDensity == LookupEthanolDensity \/ ConvertPercentage \/ ConvertPercentageBack \/ Return
SpecDensity == InitSolventData /\ [][NextDensity]_vars

\* Herbs per formula.
MaxHerbs == 2

\* The inputs the formulation calls are drawn from.
HerbEntries ==
    { [name |-> h[1], parts |-> F(p), ratio |-> F(r), alcohol_pct |-> h[2]] :
        h \in {<<"Valerian", F(60)>>, <<"Passionflower", F(40)>>}, p \in {-1, 0, 1, 2}, r \in {0, 5} }
HerbLists == UNION { [1..k -> HerbEntries] : k \in 0..MaxHerbs }
TargetVolumes == {None, F(0), F(30), F(100)}
BottleSizes == {None, F(50)}
DoseMgs == {F(-3), F(0), F(1), F(3), F(7), F(100), F(500), F(750)}
DoseRatios == {F(-1), F(0), F(1), F(2), F(3), F(5), F(6), F(10)}
TinctureMls == {F(0), F(1), F(2), F(5)}

BuildFormula ==
    /\ call = NoCall
    /\ \E hs \in HerbLists, t \in TargetVolumes, b \in BottleSizes :
        call' = [op |-> "build_formula", herbs |-> hs, target_volume_ml |-> t,
                 bottle_size_ml |-> b, result |-> build_formula(hs, t, b)]
    /\ UNCHANGED <<dataVars, REGISTRY, pc>>

TinctureFromDose ==
    /\ call = NoCall
    /\ \E mg \in DoseMgs, r \in DoseRatios :
        call' = [op |-> "tincture_from_dose", target_herb_mg |-> mg, ratio |-> r,
                 result |-> tincture_from_dose(mg, r)]
    /\ UNCHANGED <<dataVars, REGISTRY, pc>>

\* dry_equivalent on a volume of the caller's own (dose_mg is None).
DryEquivalent ==
    /\ call = NoCall
    /\ \E ml \in TinctureMls, r \in DoseRatios :
        call' = [op |-> "dry_equivalent", tincture_ml |-> ml, ratio |-> r, dose_mg |-> None,
                 result |-> dry_equivalent(ml, r)]
    /\ UNCHANGED <<dataVars, REGISTRY, pc>>

\* dry_equivalent on the volume tincture_from_dose just returned, at the same
\* ratio (tests/test_formulation.py test_roundtrip).
DryEquivalentOfTincture ==
    /\ call.op = "tincture_from_dose"
    /\ call.result.status = "ok"
    /\ call' = [op |-> "dry_equivalent", tincture_ml |-> call.result.value,
                ratio |-> call.ratio, dose_mg |-> call.target_herb_mg,
                result |-> dry_equivalent(call.result.value, call.ratio)]
    /\ UNCHANGED <<dataVars, REGISTRY, pc>>

\* The (name, parts) pairs and target weights scale_parts is called with.
PartPairs == {<<n, F(p)>> : n \in {"Valerian", "Skullcap"}, p \in {-1, 0, 1, 2, 3}}
PartLists == UNION { [1..k -> PartPairs] : k \in 0..MaxHerbs }
TargetTotals == {F(0), F(30), F(100), F(200)}

ScaleParts ==
    /\ call = NoCall
    /\ \E ps \in PartLists, g \in TargetTotals :
        call' = [op |-> "scale_parts", parts |-> ps, target_total_g |-> g,
                 result |-> scale_parts(ps, g)]
    /\ UNCHANGED <<dataVars, REGISTRY, pc>>

NextFormulation ==
    \/ BuildFormula \/ TinctureFromDose \/ DryEquivalent \/ DryEquivalentOfTincture
    \/ ScaleParts \/ Return

SpecFormulation == InitIdle /\ [][NextFormulation]_vars

---------------------------------------------------------------------------
(* The unit files and the calls of core/units.py                            *)

\* Unit definitions across all five files.
MaxUnits == 2

\* Unit definitions that collide: in canonical name, in case, in alias, alias
\* against canonical name, and in to_base.
UnitPool ==
    { [unit_name |-> "gram", symbol |-> "g", type |-> "mass", to_base |-> F(1),
       aliases |-> <<"g">>],
      [unit_name |-> "Gram", to_base |-> F(1), aliases |-> <<"G", "dram">>],
      [unit_name |-> "dram", symbol |-> "dr", type |-> "mass", to_base |-> Fl(177, 100),
       aliases |-> <<"dr">>],
      [unit_name |-> "dram", symbol |-> "fl dr", system |-> "apothecary", type |-> "volume",
       to_base |-> Fl(37, 10), base_unit |-> "milliliter", aliases |-> <<"dr", "gram">>],
      [unit_name |-> "milliliter", symbol |-> "mL", type |-> "volume", to_base |-> F(1),
       base_unit |-> "milliliter", aliases |-> <<"ml", "g">>] }

FamilyIndex == 1..5

\* The entries of us that fam assigns to family k, in order.
RECURSIVE FileOf(_, _, _)
FileOf(us, fam, k) ==
    IF us = <<>> THEN <<>>
    ELSE (IF Head(fam) = k THEN <<Head(us)>> ELSE <<>>) \o FileOf(Tail(us), Tail(fam), k)

\* The unit files: at most MaxUnits definitions of the pool spread over the
\* five families; the import has not run.
InitRegistry ==
    /\ \E n \in 0..MaxUnits : \E us \in [1..n -> UnitPool], fam \in [1..n -> FamilyIndex] :
        /\ \A i \in 1..n, j \in 1..n : i < j => fam[i] <= fam[j]
        /\ METRIC = JsonList(FileOf(us, fam, 1))
        /\ AVOIRDUPOIS = JsonList(FileOf(us, fam, 2))
        /\ APOTHECARY = JsonList(FileOf(us, fam, 3))
        /\ HOUSEHOLD = JsonList(FileOf(us, fam, 4))
        /\ HISTORICAL = JsonList(FileOf(us, fam, 5))
    /\ SOLVENTS = JsonObject
    /\ REGISTRY = <<>>
    /\ pc = "import"
    /\ call = NoCall

\* Unit files in the shape of the reference data: metric base units, an
\* avoirdupois ounce, an imprecise household drop with a variance note and an
\* imprecise teaspoon without one.
MetricUnits ==
    << [unit_name |-> "gram", symbol |-> "g", type |-> "mass", to_base |-> F(1),
        aliases |-> <<"g">>],
       [unit_name |-> "kilogram", symbol |-> "kg", type |-> "mass", to_base |-> F(1000),
        aliases |-> <<"kg">>],
       [unit_name |-> "milliliter", symbol |-> "mL", type |-> "volume", to_base |-> F(1),
        base_unit |-> "milliliter", aliases |-> <<"ml">>] >>
Ounce(to_base) ==
    [unit_name |-> "ounce", symbol |-> "oz", type |-> "mass", to_base |-> to_base,
     aliases |-> <<"oz">>]
Drop ==
    [unit_name |-> "drop", symbol |-> "gtt", type |-> "volume", to_base |-> Fl(1, 20),
     base_unit |-> "milliliter", precise |-> FALSE,
     variance_note |-> "Drop size varies with the dropper."]
Teaspoon ==
    [unit_name |-> "teaspoon", symbol |-> "tsp", type |-> "volume", to_base |-> F(5),
     base_unit |-> "milliliter", precise |-> FALSE]
OunceFactors == {Fl(2835, 100), F(3)}

InitReference ==
    /\ METRIC \in {JsonList(MetricUnits), JsonUnits(MetricUnits)}
    /\ \E f \in OunceFactors :
        AVOIRDUPOIS \in {JsonUnits(<<Ounce(f)>>), JsonList(<<Ounce(f)>>), JsonObject}
    /\ APOTHECARY = JsonObject
    /\ HOUSEHOLD = JsonList(<<Drop, Teaspoon>>)
    /\ HISTORICAL = JsonObject
    /\ SOLVENTS = JsonObject
    /\ REGISTRY = <<>>
    /\ pc = "import"
    /\ call = NoCall

\* core/units.py line 118: the registry is built when the module is imported.
Import ==
    /\ pc = "import"
    /\ REGISTRY' = build_registry(METRIC, AVOIRDUPOIS, APOTHECARY, HOUSEHOLD, HISTORICAL)
    /\ pc' = "ready"
    /\ UNCHANGED <<dataVars, call>>

\* A bug the read-only claim must notice: a call drops the registry's first
\* entry.
registry_after_read_popping(reg) == IF reg = <<>> THEN reg ELSE SubSeq(reg, 2, Len(reg))

\* get_unit_info, list_units, convert and convert_all read _REGISTRY (.get,
\* .values()) and assign neither to it nor to a field of a UnitInfo: the
\* registry a call leaves behind.
registry_after_read(reg) == reg

\* The inputs the unit calls are drawn from.
LookupNames ==
    {"gram", "Gram", "g", "G", "dram", "dr", "fl dr", "milliliter", "ml", "mL", "zorkmids"}
TypeFilters == {NoneStr, "mass", "volume"}
SystemFilters == {NoneStr, "metric", "apothecary"}
ConvertNames == {"gram", "Gram", "kg", "ounce", "milliliter", "drop", "teaspoon", "zorkmids"}
ConvertValues == {F(0), F(-10), F(1), F(3), Fl(1, 10)}

GetUnitInfo ==
    /\ pc = "ready" /\ call = NoCall
    /\ \E name \in LookupNames :
        call' = [op |-> "get_unit_info", unit_name |-> name,
                 result |-> get_unit_info(REGISTRY, name)]
    /\ REGISTRY' = registry_after_read(REGISTRY)
    /\ UNCHANGED <<dataVars, pc>>

ListUnits ==
    /\ pc = "ready" /\ call = NoCall
    /\ \E t \in TypeFilters, sys \in SystemFilters :
        call' = [op |-> "list_units", unit_type |-> t, system |-> sys,
                 result |-> list_units(REGISTRY, t, sys)]
    /\ REGISTRY' = registry_after_read(REGISTRY)
    /\ UNCHANGED <<dataVars, pc>>

\* convert on a value of the caller's own (origin_value is None).
Convert ==
    /\ pc = "ready" /\ call = NoCall
    /\ \E v \in ConvertValues, a \in ConvertNames, b \in ConvertNames :
        call' = [op |-> "convert", value |-> v, from_unit |-> a, to_unit |-> b,
                 origin_value |-> None, origin_unit |-> NoneStr,
                 result |-> convert(REGISTRY, v, a, b)]
    /\ REGISTRY' = registry_after_read(REGISTRY)
    /\ UNCHANGED <<dataVars, pc>>

\* convert on the value a first convert just returned, from the unit it was
\* converted to: convert(convert(v, A, B).value, B, C).
ConvertAgain ==
    /\ pc = "ready"
    /\ call.op = "convert" /\ IsNone(call.origin_value)
    /\ call.result.status = "ok"
    /\ \E c \in ConvertNames :
        call' = [op |-> "convert", value |-> call.result.value,
                 from_unit |-> call.to_unit, to_unit |-> c,
                 origin_value |-> call.value, origin_unit |-> call.from_unit,
                 result |-> convert(REGISTRY, call.result.value, call.to_unit, c)]
    /\ REGISTRY' = registry_after_read(REGISTRY)
    /\ UNCHANGED <<dataVars, pc>>

NextRegistry == Import \/ GetUnitInfo \/ ListUnits \/ Return
SpecRegistry == InitRegistry /\ [][NextRegistry]_vars

NextUnits == Import \/ Convert \/ ConvertAgain \/ Return
SpecUnits == InitReference /\ [][NextUnits]_vars

\* convert_all over the colliding unit definitions.
ConvertAllNames == {"gram", "Gram", "g", "dram", "dr", "milliliter", "zorkmids"}
ConvertAllValues == {F(0), F(3)}

ConvertAll ==
    /\ pc = "ready" /\ call = NoCall
    /\ \E v \in ConvertAllValues, a \in ConvertAllNames, sys \in SystemFilters :
        call' = [op |-> "convert_all", value |-> v, from_unit |-> a, target_system |-> sys,
                 result |-> convert_all(REGISTRY, v, a, sys)]
    /\ REGISTRY' = registry_after_read(REGISTRY)
    /\ UNCHANGED <<dataVars, pc>>

NextConvertAll == Import \/ ConvertAll \/ Return
SpecConvertAll == InitRegistry /\ [][NextConvertAll]_vars

\* Every reading call of core/units.py, in any order, after the import.
NextReaders == Import \/ GetUnitInfo \/ ListUnits \/ Convert \/ ConvertAll \/ Return
SpecReaders == InitRegistry /\ [][NextReaders]_vars

---------------------------------------------------------------------------
(* Claims about core/solvents.py                                            *)

\* The stored components summed as Python sums them, left to right.
ComponentSum(r) == FAdd(FAdd(r.ethanol_ml, r.water_ml), r.glycerin_ml)

\* glycerin_pct + target_alcohol_pct <= 100, in exact arithmetic.
WithinHundred(r) == ExactSumLe(r.glycerin_pct, r.target_alcohol_pct, F(100))

ValidDilution(c) ==
    /\ Lt(Zero, c.source)
    /\ Le(Zero, c.target)
    /\ Le(c.target, c.source)
    /\ Lt(Zero, c.total)

\* C4 as stated: for source > 0, 0 <= target <= source and total > 0 the two
\* returned volumes add up to total exactly.
C4_AdditivityExact ==
    (call.op = "pearson_square" /\ ValidDilution(call))
        => /\ call.result.status = "ok"
           /\ FAdd(call.result.source_volume_ml, call.result.diluent_volume_ml) = call.total

\* C4 amended: for source > 0, 0 <= target <= source and total > 0 the call
\* succeeds and the two returned volumes add up to total up to floating-point
\* rounding (at most 4 unit roundoffs of total).
C4_Additivity ==
    (call.op = "pearson_square" /\ ValidDilution(call))
        => LET r == call.result
           IN  /\ r.status = "ok"
               /\ r.total_volume_ml = call.total
               /\ Close(FAdd(r.source_volume_ml, r.diluent_volume_ml), call.total, 4)

\* C4 witness: a proper dilution, 0 < target < source, of a positive volume.
C4_Witness ==
    /\ call.op = "pearson_square"
    /\ ValidDilution(call)
    /\ Lt(Zero, call.target)
    /\ Lt(call.target, call.source)
    /\ call.result.status = "ok"
    /\ Lt(Zero, call.result.diluent_volume_ml)

---------------------------------------------------------------------------
(* Claims about core/formulation.py                                         *)

\* A returned formula over a non-empty herb list whose parts are all positive.
PositiveFormula ==
    /\ call.op = "build_formula"
    /\ call.herbs # <<>>
    /\ \A i \in 1..Len(call.herbs) : Lt(Zero, call.herbs[i].parts)
    /\ call.result.status = "ok"

MenstruumSum(r) == FSum([i \in 1..Len(r.herbs) |-> r.herbs[i].menstruum_ml])

\* The per-herb proportions parts / total_parts, summed.
ProportionSum(herbs) ==
    LET total_parts == FSum([i \in 1..Len(herbs) |-> herbs[i].parts])
    IN  FSum([i \in 1..Len(herbs) |-> FDiv(herbs[i].parts, total_parts)])

DoseRoundTrip ==
    /\ call.op = "dry_equivalent"
    /\ ~IsNone(call.dose_mg)
    /\ Lt(Zero, call.dose_mg)
    /\ Lt(Zero, call.ratio)

\* C6 as stated: dry_equivalent(tincture_from_dose(mg, ratio), ratio) * 1000
\* equals mg exactly.
C6_DoseInverseExact ==
    DoseRoundTrip =>
        /\ call.result.status = "ok"
        /\ FMul(call.result.value, F(1000)) = call.dose_mg

\* C6 amended: dry_equivalent(tincture_from_dose(mg, ratio), ratio) * 1000
\* equals mg up to floating-point rounding (at most 4 unit roundoffs).
C6_DoseInverse ==
    DoseRoundTrip =>
        /\ call.result.status = "ok"
        /\ Close(FMul(call.result.value, F(1000)), call.dose_mg, 4)

\* C6 witness: the round trip of the repository's test, 750 mg at 1:5.
C6_Witness ==
    /\ DoseRoundTrip
    /\ call.dose_mg = F(750)
    /\ call.ratio = F(5)
    /\ call.result.status = "ok"

---------------------------------------------------------------------------
(* Claims about convert                                                     *)

\* The call is convert(convert(v, A, B).value, B, C): origin_value is v,
\* origin_unit is A, from_unit is B, to_unit is C, and the first convert
\* succeeded.
Chained == call.op = "convert" /\ ~IsNone(call.origin_value)

\* C1.  Round trip: when convert(v, A, B) succeeds, converting its value back
\* from B to A succeeds and returns v up to floating-point rounding: the
\* four roundings of the two conversions leave it within 5 unit roundoffs of
\* v, far inside the relative tolerance 1e-9 at binary64.
C1_RoundTrip ==
    (Chained /\ call.to_unit = call.origin_unit)
        => /\ call.result.status = "ok"
           /\ Close(call.result.value, call.origin_value, 5)

\* A round trip through a factor that is no power of two, on a value that is
\* neither zero nor an integer.
C1_Witness ==
    /\ Chained
    /\ call.origin_unit = "gram" /\ call.from_unit = "ounce" /\ call.to_unit = "gram"
    /\ call.origin_value = Fl(1, 10)
    /\ call.result.status = "ok"

\* A name resolves when its lowercase form is a key of the registry.
Resolves(unit_name) == \E i \in 1..Len(REGISTRY) : REGISTRY[i].key = Lower(unit_name)
DimensionOf(unit_name) ==
    REGISTRY[CHOOSE i \in 1..Len(REGISTRY) : REGISTRY[i].key = Lower(unit_name)].info.unit_type

\* C2.  convert(v, from, to) fails as an unknown unit whenever from or to does
\* not resolve, fails as an incompatible dimension whenever both resolve to
\* units of different dimensions, and succeeds in every other case, for zero
\* and negative values too.
C2_ConvertFailures ==
    call.op = "convert" =>
        IF ~Resolves(call.from_unit) \/ ~Resolves(call.to_unit)
        THEN call.result.status = "ValueError" /\ call.result.message = "Unknown unit"
        ELSE IF DimensionOf(call.from_unit) # DimensionOf(call.to_unit)
        THEN call.result.status = "ValueError" /\ call.result.message = "Cannot convert"
        ELSE call.result.status = "ok"

\* gram to milliliter, both registered, is refused.
C2_Witness ==
    /\ call.op = "convert"
    /\ call.from_unit = "gram" /\ call.to_unit = "milliliter"
    /\ Resolves("gram") /\ Resolves("milliliter")
    /\ call.result.status = "ValueError" /\ call.result.message = "Cannot convert"

\* convert(v, A, C) for the chained call convert(convert(v, A, B).value, B, C).
Direct == convert(REGISTRY, call.origin_value, call.origin_unit, call.to_unit)

\* C7 as stated: whenever A -> B -> C succeeds, its value equals that of
\* A -> C exactly.
C7_PathIndependenceExact ==
    (Chained /\ call.result.status = "ok")
        => Direct.status = "ok" /\ call.result.value = Direct.value

\* C7.  Path independence up to rounding: whenever A -> B -> C succeeds,
\* A -> C succeeds, yields the same unit, and the two values agree up to
\* floating-point rounding (the six roundings leave them within 7 unit
\* roundoffs of each other).
C7_PathIndependence ==
    (Chained /\ call.result.status = "ok")
        => /\ Direct.status = "ok"
           /\ Direct.unit = call.result.unit
           /\ Close(call.result.value, Direct.value, 7)

\* A path over three different units on which the two values differ.
C7_Witness ==
    /\ Chained /\ call.result.status = "ok"
    /\ call.origin_unit # call.from_unit
    /\ call.from_unit # call.to_unit
    /\ call.origin_unit # call.to_unit
    /\ call.result.value # Direct.value

---------------------------------------------------------------------------
(* Claims about the registry                                                *)

\* The unit definitions a family's file contributes, as the UnitInfo objects
\* made of them: a list's items, or the "units" member of an object for the
\* families read either way.
Loaded(data, list_only, source_system) ==
    LET items == IF data.kind = "list" THEN data.items
                 ELSE IF list_only THEN <<>>
                 ELSE Get(data, "units", <<>>)
    IN  [i \in 1..Len(items) |-> UnitInfo(items[i], source_system, i)]

\* Every registered unit, in load order: metric, avoirdupois, apothecary,
\* household, historical, and file order within a family.
LoadOrder ==
    Loaded(METRIC, TRUE, "metric") \o Loaded(AVOIRDUPOIS, FALSE, "avoirdupois")
    \o Loaded(APOTHECARY, FALSE, "apothecary") \o Loaded(HOUSEHOLD, TRUE, "household")
    \o Loaded(HISTORICAL, FALSE, "historical")

\* The places in the load order of the units whose lowercase canonical name
\* is key, and of those that list key (in any case) as an alias.
NamedBy(order, key) == {i \in 1..Len(order) : Lower(order[i].unit_name) = key}
OfferedBy(order, key) ==
    {i \in 1..Len(order) :
        \E j \in 1..Len(order[i].aliases) : Lower(order[i].aliases[j]) = key}
First(S) == CHOOSE i \in S : \A j \in S : i <= j
Last(S) == CHOOSE i \in S : \A j \in S : j <= i

LookupKeys == {Lower(name) : name \in LookupNames}

\* C8.  After the build, a key that is the lowercase canonical name of some
\* unit maps to the last unit in load order with that name, whether or not
\* an earlier unit offered it as an alias; any other key maps to the first
\* unit in load order that lists it as an alias; a key nobody names or
\* offers is absent.
C8_KeyResolution ==
    pc = "ready" =>
        LET order == LoadOrder
        IN  \A key \in LookupKeys :
                LET named == NamedBy(order, key)
                    offered == OfferedBy(order, key)
                IN  IF named # {}
                    THEN DictGet(REGISTRY, key) = order[Last(named)]
                    ELSE IF offered # {}
                    THEN DictGet(REGISTRY, key) = order[First(offered)]
                    ELSE DictGet(REGISTRY, key) = NoUnit

\* A key first taken by an earlier unit's alias, then by a later unit's
\* canonical name.
C8_Witness ==
    /\ pc = "ready"
    /\ LET order == LoadOrder
       IN  \E key \in LookupKeys : \E i \in OfferedBy(order, key), j \in NamedBy(order, key) :
               /\ i < j
               /\ DictGet(REGISTRY, key) = order[j]

\* A UnitInfo's fields, its identity left out.
Descriptor(info) == [f \in DOMAIN info \ {"oid"} |-> info[f]]

\* C9 as stated: get_unit_info(u.unit_name) returns u's descriptor, for every
\* registered unit u.
C9_ReachableByNameAlways ==
    call.op = "get_unit_info" =>
        \A i \in 1..Len(LoadOrder) :
            LoadOrder[i].unit_name = call.unit_name =>
                Descriptor(call.result) = Descriptor(LoadOrder[i])

\* C9.  For every registered unit u, get_unit_info(u.unit_name) returns the
\* last registered unit whose canonical name is u's up to case: u itself
\* unless a unit registered later has that name.
C9_ReachableByName ==
    call.op = "get_unit_info" =>
        LET order == LoadOrder
            same == NamedBy(order, Lower(call.unit_name))
        IN  \A i \in 1..Len(order) :
                order[i].unit_name = call.unit_name =>
                    /\ call.result = order[Last(same)]
                    /\ (\A j \in same : j <= i) => call.result = order[i]

\* A lookup by the canonical name two registered units share up to case.
C9_Witness ==
    /\ call.op = "get_unit_info"
    /\ \E i \in 1..Len(LoadOrder), j \in 1..Len(LoadOrder) :
        /\ i < j
        /\ LoadOrder[j].unit_name = call.unit_name
        /\ Lower(LoadOrder[i].unit_name) = Lower(call.unit_name)
        /\ call.result = LoadOrder[j]

---------------------------------------------------------------------------
(* Claims about list_units                                                  *)

\* u passes the filters of the call.
Matches(u, unit_type, system) ==
    /\ unit_type = NoneStr \/ u.unit_type = unit_type
    /\ system = NoneStr \/ u.system = system

\* The orders a file could list its definitions in, and the registries built
\* from the files of the state with each file's definitions in some order.
Orders(items) ==
    { [i \in 1..Len(items) |-> items[p[i]]] :
        p \in {q \in [1..Len(items) -> 1..Len(items)] :
                  \A i, j \in 1..Len(items) : i # j => q[i] # q[j]} }
Reordered(data) ==
    IF data.kind = "list" THEN {JsonList(items) : items \in Orders(data.items)}
    ELSE IF "units" \in DOMAIN data THEN {JsonUnits(items) : items \in Orders(data.units)}
    ELSE {data}
Registries ==
    { build_registry(m, av, ap, ho, hi) :
        m \in Reordered(METRIC), av \in Reordered(AVOIRDUPOIS), ap \in Reordered(APOTHECARY),
        ho \in Reordered(HOUSEHOLD), hi \in Reordered(HISTORICAL) }

Descriptors(results) == [k \in 1..Len(results) |-> Descriptor(results[k])]
Elements(results) == {results[k] : k \in 1..Len(results)}

\* What every listing satisfies: each entry is held by the registry and
\* passes the filters, no two entries share a canonical name, and to_base
\* never decreases along the list.
WellFormedListing(r, unit_type, system) ==
    /\ \A k \in 1..Len(r) :
        /\ \E i \in 1..Len(REGISTRY) : REGISTRY[i].info = r[k]
        /\ Matches(r[k], unit_type, system)
    /\ \A k, l \in 1..Len(r) : k # l => r[k].unit_name # r[l].unit_name
    /\ \A k, l \in 1..Len(r) : k < l => Le(r[k].to_base, r[l].to_base)

\* C10 as stated: the listing is well formed, holds every registered unit
\* that passes the filters exactly once, and is the same sequence whatever
\* the order of registration.
C10_ListingComplete ==
    call.op = "list_units" =>
        LET r == call.result
        IN  /\ WellFormedListing(r, call.unit_type, call.system)
            /\ \A i \in 1..Len(LoadOrder) :
                Matches(LoadOrder[i], call.unit_type, call.system)
                    => Cardinality({k \in 1..Len(r) :
                                      Descriptor(r[k]) = Descriptor(LoadOrder[i])}) = 1
            /\ \A reg \in Registries :
                Descriptors(list_units(reg, call.unit_type, call.system)) = Descriptors(r)

\* C10.  The listing is well formed; every canonical name of a unit the
\* registry holds that passes the filters is listed; a registered unit that
\* passes the filters and shares its canonical name (up to case) with no
\* other registered unit is listed exactly once; and when no two registered
\* units share a canonical name up to case, the units listed do not depend
\* on the order of registration, nor does their sequence when their to_base
\* are all different.
C10_Listing ==
    call.op = "list_units" =>
        LET r == call.result
            order == LoadOrder
            unshared(i) == NamedBy(order, Lower(order[i].unit_name)) = {i}
        IN  /\ WellFormedListing(r, call.unit_type, call.system)
            /\ \A i \in 1..Len(REGISTRY) :
                Matches(REGISTRY[i].info, call.unit_type, call.system)
                    => \E k \in 1..Len(r) : r[k].unit_name = REGISTRY[i].info.unit_name
            /\ \A i \in 1..Len(order) :
                (Matches(order[i], call.unit_type, call.system) /\ unshared(i))
                    => Cardinality({k \in 1..Len(r) : r[k] = order[i]}) = 1
            /\ (\A i \in 1..Len(order) : unshared(i)) =>
                \A reg \in Registries :
                    LET other == Descriptors(list_units(reg, call.unit_type, call.system))
                    IN  /\ Elements(other) = Elements(Descriptors(r))
                        /\ (\A k, l \in 1..Len(r) : k # l => r[k].to_base # r[l].to_base)
                               => other = Descriptors(r)

\* A listing by dimension that keeps one of two registered units, of
\* different canonical names, and drops the other.
C10_Witness ==
    /\ call.op = "list_units"
    /\ call.unit_type = "mass"
    /\ Len(LoadOrder) = 2
    /\ LoadOrder[1].unit_type # LoadOrder[2].unit_type
    /\ Lower(LoadOrder[1].unit_name) # Lower(LoadOrder[2].unit_name)
    /\ Len(call.result) = 1

---------------------------------------------------------------------------
(* Claims about convert_all                                                 *)

\* The ConversionResult of converting value from from_info to the unit
\* target itself.
ConversionTo(value, from_info, target) ==
    [ status |-> "ok",
      value |-> convert_value(value, from_info, target),
      unit |-> target.unit_name,
      symbol |-> target.symbol,
      system |-> target.system,
      unit_type |-> target.unit_type,
      warnings |-> precision_warnings(from_info, target) ]

\* The units of the listing other than from's own, in the listing's order.
OtherUnits(targets, from_info) ==
    SelectSeq(targets, LAMBDA t : Descriptor(t) # Descriptor(from_info))

\* C11 as stated: convert_all fails when from is unknown; otherwise it
\* returns, in the order of list_units(from's dimension, target_system), one
\* result for each listed unit other than from's own, the conversion of v
\* to that unit, and no result for from's own unit.
C11_ConvertAllOnePerUnit ==
    call.op = "convert_all" =>
        IF ~Resolves(call.from_unit)
        THEN call.result.status = "ValueError" /\ call.result.message = "Unknown unit"
        ELSE LET from_info == get_unit_info(REGISTRY, call.from_unit)
                 others == OtherUnits(list_units(REGISTRY, from_info.unit_type,
                                                 call.target_system), from_info)
             IN  /\ call.result.status = "ok"
                 /\ Len(call.result.results) = Len(others)
                 /\ \A k \in 1..Len(others) :
                     call.result.results[k] = ConversionTo(call.value, from_info, others[k])

\* C12 as stated: every result of convert_all(v, from, target_system = S)
\* describes a unit whose system is S.
C12_ConvertAllSystem ==
    (call.op = "convert_all" /\ call.target_system # NoneStr /\ call.result.status = "ok")
        => \A k \in 1..Len(call.result.results) :
               call.result.results[k].system = call.target_system

---------------------------------------------------------------------------
(* Claims about lookup by symbol                                            *)

\* C13 as stated: for every registered unit u, get_unit_info of u's symbol,
\* in any case, returns u; a string that is no registered unit's name,
\* symbol or alias, in any case, returns None.
C13_LookupBySymbol ==
    call.op = "get_unit_info" =>
        LET order == LoadOrder
            key == Lower(call.unit_name)
        IN  /\ \A i \in 1..Len(order) :
                Lower(order[i].symbol) = key
                    => Descriptor(call.result) = Descriptor(order[i])
            /\ (\A i \in 1..Len(order) :
                    /\ Lower(order[i].unit_name) # key
                    /\ Lower(order[i].symbol) # key
                    /\ i \notin OfferedBy(order, key))
                => call.result = NoUnit

---------------------------------------------------------------------------
(* Claims about precision warnings                                          *)

\* The unit files with every precise flag removed, and the registry built
\* from them.
Unflagged(items) ==
    [i \in 1..Len(items) |-> [f \in DOMAIN items[i] \ {"precise"} |-> items[i][f]]]
UnflaggedFile(data) ==
    IF data.kind = "list" THEN JsonList(Unflagged(data.items))
    ELSE IF "units" \in DOMAIN data THEN JsonUnits(Unflagged(data.units))
    ELSE data
UnflaggedRegistry ==
    build_registry(UnflaggedFile(METRIC), UnflaggedFile(AVOIRDUPOIS), UnflaggedFile(APOTHECARY),
                   UnflaggedFile(HOUSEHOLD), UnflaggedFile(HISTORICAL))

\* C14.  A successful convert carries one warning per endpoint unit flagged
\* imprecise, the source unit's first, each naming its unit, and none
\* otherwise: the warnings are non-empty exactly when an endpoint is
\* imprecise; the value is the one the same call returns, without warnings,
\* when no unit is flagged.
C14_PrecisionWarnings ==
    (call.op = "convert" /\ call.result.status = "ok") =>
        LET from_info == get_unit_info(REGISTRY, call.from_unit)
            to_info == get_unit_info(REGISTRY, call.to_unit)
            imprecise == SelectSeq(<<from_info, to_info>>, LAMBDA u : ~u.precise)
            warnings == call.result.warnings
            unflagged == convert(UnflaggedRegistry, call.value, call.from_unit, call.to_unit)
        IN  /\ Len(warnings) = Len(imprecise)
            /\ \A k \in 1..Len(imprecise) : warnings[k].unit = imprecise[k].unit_name
            /\ warnings # <<>> <=> (~from_info.precise \/ ~to_info.precise)
            /\ unflagged.status = "ok"
            /\ unflagged.warnings = <<>>
            /\ unflagged.value = call.result.value

\* A conversion between two different imprecise units: two warnings, the
\* drop's note first, the default text for the teaspoon.
C14_Witness ==
    /\ call.op = "convert" /\ call.result.status = "ok"
    /\ call.from_unit = "drop" /\ call.to_unit = "teaspoon"
    /\ Len(call.result.warnings) = 2
    /\ call.result.warnings[1].note = Drop.variance_note
    /\ call.result.warnings[2].note = "Values are approximate."


(***************************************************************************)
(* lookup_ethanol_density                                                  *)
(***************************************************************************)

\* The table a density lookup has searched, and its samples.
DensityTable == get_density_table(SOLVENTS)
Samples == {DensityTable[i] : i \in 1..Len(DensityTable)}

\* The samples at, below and above a percentage, and the nearest of each side.
SamplesAt(p) == {s \in Samples : s.ethanol_pct_vv = p}
SamplesBelow(p) == {s \in Samples : Lt(s.ethanol_pct_vv, p)}
SamplesAbove(p) == {s \in Samples : Lt(p, s.ethanol_pct_vv)}
NearestBelow(p) == {s \in SamplesBelow(p) : \A t \in SamplesBelow(p) : Le(t.ethanol_pct_vv, s.ethanol_pct_vv)}
NearestAbove(p) == {s \in SamplesAbove(p) : \A t \in SamplesAbove(p) : Le(s.ethanol_pct_vv, t.ethanol_pct_vv)}

\* lower.d + (pct - lower.pct) / (upper.pct - lower.pct) * (upper.d - lower.d)
Interpolated(p, lo, hi) ==
    FAdd(lo.density_g_ml,
         FMul(FDiv(FSub(p, lo.ethanol_pct_vv), FSub(hi.ethanol_pct_vv, lo.ethanol_pct_vv)),
              FSub(hi.density_g_ml, lo.density_g_ml)))

\* p is half way between the two samples.
Midpoint(p, lo, hi) == FAdd(lo.ethanol_pct_vv, hi.ethanol_pct_vv) = FMul(F(2), p)

\* The mean of the two samples' densities.
MeanDensity(lo, hi) == FDiv(FAdd(lo.density_g_ml, hi.density_g_ml), F(2))

\* C15: over a non-empty density table, lookup_ethanol_density(p) fails with
\* the out-of-range error exactly when p < 0 or p > 100; otherwise it returns
\* the density of a sample at p when there is one, else the linear
\* interpolation between the nearest sample below and the nearest above p
\* (the mean of their densities at their midpoint), and with samples on one
\* side only the density of the nearest sample of that side.
C15_DensityLookup ==
    (call # NoCall /\ call.op = "lookup_ethanol_density" /\ DensityTable # <<>>) =>
        LET p == call.ethanol_pct_vv
            r == call.result
        IN  /\ (r.status = "ValueError") <=> (Lt(p, Zero) \/ Lt(F(100), p))
            /\ r.status \in {"ok", "ValueError"}
            /\ r.status = "ok" =>
                  IF SamplesAt(p) # {}
                  THEN \E s \in SamplesAt(p) : r.value = s.density_g_ml
                  ELSE IF SamplesBelow(p) # {} /\ SamplesAbove(p) # {}
                  THEN \E lo \in NearestBelow(p), hi \in NearestAbove(p) :
                          /\ r.value = Interpolated(p, lo, hi)
                          /\ Midpoint(p, lo, hi) => r.value = MeanDensity(lo, hi)
                  ELSE IF SamplesBelow(p) # {}
                  THEN \E lo \in NearestBelow(p) : r.value = lo.density_g_ml
                  ELSE \E hi \in NearestAbove(p) : r.value = hi.density_g_ml

\* A lookup half way between two samples of a table that has further samples.
C15_Witness ==
    /\ call # NoCall /\ call.op = "lookup_ethanol_density"
    /\ Len(DensityTable) = MaxSamples
    /\ call.result.status = "ok"
    /\ SamplesAt(call.ethanol_pct_vv) = {}
    /\ \E lo \in NearestBelow(call.ethanol_pct_vv), hi \in NearestAbove(call.ethanol_pct_vv) :
          /\ Midpoint(call.ethanol_pct_vv, lo, hi)
          /\ call.result.value = MeanDensity(lo, hi)
          /\ lo.density_g_ml # hi.density_g_ml


\* The two-point linear model between water and pure ethanol.
TwoPointModel(p) == FSub(F(1), FMul(FDiv(p, F(100)), FSub(F(1), Fl(7893, 10000))))

\* C16: when the loaded solvent data has no density table or an empty one,
\* lookup_ethanol_density(p) succeeds for every p in [0, 100] and returns
\* 1.0 - (p / 100) * (1.0 - 0.7893), which is 1.0 at 0 % and 0.7893 at 100 %.
C16_DensityFallback ==
    (call # NoCall /\ call.op = "lookup_ethanol_density" /\ DensityTable = <<>>
     /\ Le(Zero, call.ethanol_pct_vv) /\ Le(call.ethanol_pct_vv, F(100))) =>
        /\ call.result.status = "ok"
        /\ call.result.value = TwoPointModel(call.ethanol_pct_vv)
        /\ call.ethanol_pct_vv = Zero => call.result.value = F(1)
        /\ call.ethanol_pct_vv = F(100) => call.result.value = Fl(7893, 10000)

\* Pure ethanol looked up in solvent data that has no density table.
C16_Witness ==
    /\ call # NoCall /\ call.op = "lookup_ethanol_density"
    /\ SOLVENTS = JsonObject
    /\ call.ethanol_pct_vv = F(100)
    /\ call.result.status = "ok"
    /\ call.result.value = Fl(7893, 10000)


(***************************************************************************)
(* calculate_menstruum: the over-constrained composition                   *)
(***************************************************************************)

\* glycerin_pct + target_alcohol_pct > 100
OverConstrained(r) == Lt(F(100), FAdd(r.glycerin_pct, r.target_alcohol_pct))

\* C17: calculate_menstruum never fails; its result carries a warning, and a
\* water volume clamped to 0, exactly when glycerin_pct + target_alcohol_pct
\* exceeds 100; water_ml is never negative, and the warnings are empty when
\* the sum is at most 100.
C17_OverConstrained ==
    (call # NoCall /\ call.op = "calculate_menstruum") =>
        LET r == call.result
        IN  /\ r.status = "ok"
            /\ Le(Zero, r.water_ml)
            /\ OverConstrained(r) => (r.water_ml = Zero /\ r.warnings # <<>>)
            /\ ~OverConstrained(r) => r.warnings = <<>>


(***************************************************************************)
(* MenstruumResult: the derived quantities                                 *)
(***************************************************************************)

\* The regression inputs of the original calculator: 100 g at 1:5, 94 %
\* source, 40 % target, no glycerin.
Regression(r) ==
    /\ r.herb_weight_g = F(100) /\ r.ratio = F(5) /\ r.ethanol_source_pct = F(94)
    /\ r.target_alcohol_pct = F(40) /\ r.glycerin_pct = Zero

\* C18: of every MenstruumResult, ethanol_source_ml is
\* ethanol_ml / (ethanol_source_pct / 100) for a positive source percentage
\* and 0 otherwise, and added_water_ml is
\* max(0, water_ml - (ethanol_source_ml - ethanol_ml)), never negative; the
\* inputs (100, 5, 94, 40, 0) give total 500, ethanol 200, water 300,
\* source 200 / 0.94 and added water 300 - (200 / 0.94 - 200).
C18_DerivedQuantities ==
    (call # NoCall /\ call.op = "calculate_menstruum") =>
        LET r == call.result
            source_ml == call.ethanol_source_ml
        IN  /\ Lt(Zero, r.ethanol_source_pct) =>
                  source_ml = FDiv(r.ethanol_ml, FDiv(r.ethanol_source_pct, F(100)))
            /\ Le(r.ethanol_source_pct, Zero) => source_ml = Zero
            /\ call.added_water_ml = FMax(Zero, FSub(r.water_ml, FSub(source_ml, r.ethanol_ml)))
            /\ Le(Zero, call.added_water_ml)
            /\ Regression(r) =>
                  /\ r.total_volume_ml = F(500)
                  /\ r.ethanol_ml = F(200)
                  /\ r.water_ml = F(300)
                  /\ source_ml = FDiv(F(200), Fl(94, 100))
                  /\ call.added_water_ml = FSub(F(300), FSub(FDiv(F(200), Fl(94, 100)), F(200)))

\* The regression inputs have been calculated.
C18_Witness ==
    /\ call # NoCall /\ call.op = "calculate_menstruum"
    /\ Regression(call.result)
    /\ call.ethanol_source_ml = FDiv(F(200), Fl(94, 100))
    /\ Lt(Zero, call.added_water_ml) /\ Lt(call.added_water_ml, F(300))


(***************************************************************************)
(* pearson_square: the failures                                            *)
(***************************************************************************)

\* C19: pearson_square(source, target, total) fails exactly when source <= 0,
\* or target > source, or target < 0; with source <= 0 the failure is the one
\* about the source whatever the target, and a target above a positive source
\* fails with the cannot-concentrate failure.
C19_PearsonFailures ==
    (call # NoCall /\ call.op = "pearson_square") =>
        LET r == call.result
        IN  /\ r.status \in {"ok", "ValueError"}
            /\ (r.status = "ValueError") <=>
                  (Le(call.source, Zero) \/ Lt(call.source, call.target) \/ Lt(call.target, Zero))
            /\ Le(call.source, Zero) =>
                  r.message = "Source concentration must be greater than 0%."
            /\ (Lt(Zero, call.source) /\ Lt(call.source, call.target)) =>
                  r.message = "You cannot concentrate alcohol by dilution."

\* A source of 0 % asked to give a higher target: both failures apply.
C19_Witness ==
    /\ call # NoCall /\ call.op = "pearson_square"
    /\ call.source = Zero /\ Lt(call.source, call.target)
    /\ call.result.status = "ValueError"
    /\ call.result.message = "Source concentration must be greater than 0%."


(***************************************************************************)
(* convert_percentage: the convention codes                                *)
(***************************************************************************)

\* The convention codes convert_percentage documents.
KnownConventions == {"vv", "wv", "ww"}

\* C20: convert_percentage fails whenever from_convention or to_convention is
\* not one of vv, wv and ww, and returns the value unchanged whenever the two
\* conventions are equal.
C20_ConventionCodes ==
    (call # NoCall /\ call.op = "convert_percentage") =>
        /\ (call.from_convention \notin KnownConventions \/ call.to_convention \notin KnownConventions) =>
              call.result.status = "ValueError"
        /\ (call.from_convention = call.to_convention /\ call.from_convention \in KnownConventions) =>
              (call.result.status = "ok" /\ call.result.value = call.value)


(***************************************************************************)
(* convert_percentage: the round trip                                      *)
(***************************************************************************)

\* The call is convert_percentage(convert_percentage(x, a, b), b, a) with x in
\* [0, 100], a and b documented conventions, and either a reference
\* percentage in [0, 100] given to both calls or ethanol taken v/v -> w/v -> v/v.
RoundTripCase ==
    /\ call # NoCall /\ call.op = "convert_percentage" /\ ~IsNone(call.origin_value)
    /\ Le(Zero, call.origin_value) /\ Le(call.origin_value, F(100))
    /\ call.from_convention \in KnownConventions /\ call.to_convention \in KnownConventions
    /\ \/ call.ethanol_pct_vv # NoPct /\ Le(Zero, call.ethanol_pct_vv) /\ Le(call.ethanol_pct_vv, F(100))
       \/ call.substance = "ethanol" /\ call.from_convention = "wv" /\ call.to_convention = "vv"

\* C21 as stated: the round trip returns x exactly.
C21_PercentageRoundTripExact ==
    RoundTripCase => (call.result.status = "ok" /\ call.result.value = call.origin_value)

\* C21.  Percentage round trip up to rounding: the way back succeeds and
\* returns x up to floating-point rounding (the six roundings of the two
\* conversions leave it within 7 unit roundoffs of x).
C21_PercentageRoundTrip ==
    RoundTripCase => (call.result.status = "ok" /\ Close(call.result.value, call.origin_value, 7))

\* A round trip between w/w and w/v of ethanol, through the mixture density
\* of a table, that does not return x exactly.
C21_Witness ==
    /\ RoundTripCase
    /\ call.substance = "ethanol" /\ DensityTable # <<>>
    /\ {call.from_convention, call.to_convention} = {"ww", "wv"}
    /\ call.result.status = "ok"
    /\ call.result.value # call.origin_value


(***************************************************************************)
(* build_formula: the soft failure                                         *)
(***************************************************************************)

\* sum(h.parts for h in herbs)
TotalParts(herbs) == FSum([i \in 1..Len(herbs) |-> herbs[i].parts])

\* The herb list is empty or its parts sum to nothing.
NothingToScale(herbs) == herbs = <<>> \/ Le(TotalParts(herbs), Zero)

\* C22: build_formula raises nothing; for an empty herb list or a sum of parts
\* <= 0 it returns an empty herbs list, zero totals, a zero compromise alcohol
\* and at least one warning, and in every other case one scaled entry per
\* input herb, in input order, echoing name, parts, ratio and alcohol_pct.
C22_SoftFailure ==
    (call # NoCall /\ call.op = "build_formula") =>
        LET r == call.result
        IN  /\ r.status = "ok"
            /\ IF NothingToScale(call.herbs)
               THEN /\ r.herbs = <<>>
                    /\ r.total_herb_weight_g = Zero /\ r.total_menstruum_ml = Zero
                    /\ r.compromise_alcohol_pct = Zero
                    /\ Len(r.warnings) >= 1
               ELSE /\ Len(r.herbs) = Len(call.herbs)
                    /\ \A i \in 1..Len(call.herbs) :
                          /\ r.herbs[i].name = call.herbs[i].name
                          /\ r.herbs[i].parts = call.herbs[i].parts
                          /\ r.herbs[i].ratio = call.herbs[i].ratio
                          /\ r.herbs[i].alcohol_pct = call.herbs[i].alcohol_pct


(***************************************************************************)
(* build_formula: the compromise alcohol                                   *)
(***************************************************************************)

\* A returned formula over herbs whose parts sum to more than 0.
ScaledFormula ==
    /\ call # NoCall /\ call.op = "build_formula"
    /\ ~NothingToScale(call.herbs)
    /\ call.result.status = "ok"

\* sum(alcohol_pct_i * parts_i) / total_parts
WeightedAverage(herbs) ==
    FDiv(FSum([i \in 1..Len(herbs) |-> FMul(herbs[i].alcohol_pct, herbs[i].parts)]),
         TotalParts(herbs))

AllPartsPositive(herbs) == \A i \in 1..Len(herbs) : Lt(Zero, herbs[i].parts)
OneAlcohol(herbs) == \A i \in 1..Len(herbs) : herbs[i].alcohol_pct = herbs[1].alcohol_pct

PartsTotal == FSum([i \in 1..Len(call.parts) |-> call.parts[i][2]])
WeightsTotal == FSum([i \in 1..Len(call.result.value) |-> call.result.value[i][2]])

\* build_formula on the same names and parts (each HerbEntry with its default
\* ratio 5 and alcohol_pct 45) for the same volume.
Allocation ==
    build_formula([i \in 1..Len(call.parts) |->
                      [name |-> call.parts[i][1], parts |-> call.parts[i][2],
                       ratio |-> F(5), alcohol_pct |-> F(45)]],
                  call.target_total_g, None)

\* What C24 says of every call but the sum of the weights and the agreement
\* with build_formula: no failure, names and order kept, weight 0 for a sum
\* of parts <= 0 and parts_i / total_parts * target_total_g otherwise.
ScaledInOrder ==
    LET r == call.result
    IN  /\ r.status = "ok"
        /\ Len(r.value) = Len(call.parts)
        /\ \A i \in 1..Len(call.parts) :
              /\ r.value[i][1] = call.parts[i][1]
              /\ r.value[i][2] = IF Le(PartsTotal, Zero) THEN Zero
                                 ELSE FMul(FDiv(call.parts[i][2], PartsTotal), call.target_total_g)

\* C24 as stated: moreover, for a sum of parts > 0 the weights sum to
\* target_total_g exactly and each weight is the menstruum_ml that
\* build_formula allocates to the corresponding herb.
C24_ScalePartsExact ==
    (call # NoCall /\ call.op = "scale_parts") =>
        /\ ScaledInOrder
        /\ Lt(Zero, PartsTotal) =>
              /\ WeightsTotal = call.target_total_g
              /\ Allocation.status = "ok"
              /\ Len(Allocation.herbs) = Len(call.parts)
              /\ \A i \in 1..Len(call.parts) :
                    Allocation.herbs[i].menstruum_ml = call.result.value[i][2]

\* C24.  scale_parts never fails, keeps names and order, returns weight 0
\* for a sum of parts <= 0 and parts_i / total_parts * target_total_g
\* otherwise; the weights then sum to target_total_g up to floating-point
\* rounding (6 unit roundoffs), and for a volume other than 0 each weight
\* equals the menstruum_ml build_formula allocates to the corresponding herb.
C24_ScaleParts ==
    (call # NoCall /\ call.op = "scale_parts") =>
        /\ ScaledInOrder
        /\ Lt(Zero, PartsTotal) =>
              /\ Close(WeightsTotal, call.target_total_g, 6)
              /\ call.target_total_g # Zero =>
                    /\ Allocation.status = "ok"
                    /\ Len(Allocation.herbs) = Len(call.parts)
                    /\ \A i \in 1..Len(call.parts) :
                          Allocation.herbs[i].menstruum_ml = call.result.value[i][2]

\* Unequal positive parts scaled to a weight that build_formula allocates
\* alike.
C24_Witness ==
    /\ call # NoCall /\ call.op = "scale_parts"
    /\ Len(call.parts) = MaxHerbs
    /\ call.parts[1][2] = F(1) /\ call.parts[2][2] = F(2)
    /\ call.target_total_g = F(100)
    /\ Allocation.status = "ok"
    /\ Allocation.herbs[2].menstruum_ml = call.result.value[2][2]
    /\ Lt(call.result.value[1][2], call.result.value[2][2])


(***************************************************************************)
(* The extraction ratio                                                    *)
(***************************************************************************)

\* The call was given an extraction ratio <= 0: as its ratio argument, or as
\* the ratio of one of the herbs.
NonPositiveRatio ==
    /\ call # NoCall
    /\ \/ /\ call.op \in {"dry_equivalent", "tincture_from_dose", "calculate_menstruum"}
          /\ Le(call.ratio, Zero)
       \/ /\ call.op = "build_formula"
          /\ \E i \in 1..Len(call.herbs) : Le(call.herbs[i].ratio, Zero)

\* C25: every operation that takes an extraction ratio surfaces a ratio <= 0
\* as an explicit failure with an explanatory message and returns no result
\* computed from it (build_formula may instead fail softly for the parts).
C25_RatioRejected ==
    NonPositiveRatio =>
        \/ /\ call.result.status = "ValueError"
           /\ call.result.message = "Extraction ratio must be positive."
        \/ /\ call.op = "build_formula" /\ NothingToScale(call.herbs)
           /\ call.result.status = "ok" /\ call.result.herbs = <<>>


(***************************************************************************)
(* The registry after the import                                           *)
(***************************************************************************)

\* C26: once the import has built the registry, no get_unit_info, list_units,
\* convert or convert_all call, succeeding or failing, adds, removes or
\* changes a registry entry or a field of a registered UnitInfo, so a lookup
\* returns the same descriptor at every later point.
C26_ReadOnly == [][pc = "ready" => REGISTRY' = REGISTRY]_vars

\* A convert_all call has failed on a registry that holds units.
C26_Witness ==
    /\ pc = "ready" /\ REGISTRY # <<>>
    /\ call # NoCall /\ call.op = "convert_all"
    /\ call.result.status = "ValueError"


(***************************************************************************)
(* validate_menstruum_inputs                                               *)
(***************************************************************************)

\* The rules a validated input violates, each named by its error message.
ViolatedRules ==
    (IF Le(call.herb_g, Zero) THEN {"Herb weight must be greater than zero."} ELSE {})
    \cup (IF Lt(call.ratio, F(1)) THEN {"Extraction ratio must be at least 1."} ELSE {})
    \cup (IF Le(call.ethanol_source, Zero)
          THEN {"Ethanol source concentration must be greater than 0%."} ELSE {})
    \cup (IF Lt(call.ethanol_source, call.target_alc) /\ Lt(Zero, call.ethanol_source)
          THEN {"You cannot concentrate alcohol by dilution."} ELSE {})
    \cup (IF Lt(call.target_alc, Zero)
          THEN {"Target alcohol percentage cannot be negative."} ELSE {})
    \cup (IF Lt(call.glycerin_pct, Zero) THEN {"Glycerin percentage cannot be negative."} ELSE {})
    \cup (IF Lt(F(100), FAdd(call.glycerin_pct, call.target_alc)) THEN {"exceeds 100%"} ELSE {})

\* The positions of the error and of the warning entries of the result.
ErrorEntries == {i \in 1..Len(call.result) : ~call.result[i].valid}
WarningEntries == {i \in 1..Len(call.result) : call.result[i].valid}

\* target > 70 or 0 < target < 20
UnusualAlcohol ==
    Lt(F(70), call.target_alc) \/ (Lt(Zero, call.target_alc) /\ Lt(call.target_alc, F(20)))

\* C27: validate_menstruum_inputs returns one error entry (valid False,
\* severity error) for each violated rule and no other error entry; it adds a
\* warning entry (valid True, severity warning) only when there is no error
\* entry, namely for target > 70 or 0 < target < 20, so no result holds both
\* an error and a warning.
C27_Validation ==
    (call # NoCall /\ call.op = "validate_menstruum_inputs") =>
        /\ \A i \in ErrorEntries : call.result[i].severity = "error"
        /\ \A i \in WarningEntries : call.result[i].severity = "warning"
        /\ Cardinality(ErrorEntries) = Cardinality(ViolatedRules)
        /\ \A rule \in ViolatedRules : \E i \in ErrorEntries : call.result[i].message = rule
        /\ (WarningEntries # {}) <=> (ErrorEntries = {} /\ UnusualAlcohol)
        /\ ErrorEntries = {} \/ WarningEntries = {}

\* An input that breaks several rules and has an unusual target: errors only.
C27_Witness ==
    /\ call # NoCall /\ call.op = "validate_menstruum_inputs"
    /\ Cardinality(ErrorEntries) >= 3
    /\ UnusualAlcohol
    /\ WarningEntries = {}


(***************************************************************************)
(* The measured quantities of a validated batch                            *)
(***************************************************************************)

\* ethanol_source_ml + added_water_ml + glycerin_ml of the call's result.
MeasuredTotal == FAdd(FAdd(call.ethanol_source_ml, call.added_water_ml), call.result.glycerin_ml)

\* C28: for every input that validate_menstruum_inputs accepts without an
\* error entry, the result of calculate_menstruum has
\* ethanol_source_ml + added_water_ml + glycerin_ml = total_volume_ml: the
\* clamp in added_water_ml hides no shortfall.
C28_MeasuredBatch ==
    (call # NoCall /\ call.op = "calculate_menstruum" /\ call.validated) =>
        MeasuredTotal = call.result.total_volume_ml


(***************************************************************************)
(* pearson_square: the pure alcohol                                        *)
(***************************************************************************)

\* pearson_square has returned a DilutionResult.
Diluted == call # NoCall /\ call.op = "pearson_square" /\ call.result.status = "ok"

\* The end cases of C29: all source for target = source, all diluent for
\* target = 0, and no negative volume for a total >= 0.
DilutionEnds ==
    LET r == call.result
    IN  /\ call.target = call.source =>
              (r.source_volume_ml = call.total /\ r.diluent_volume_ml = Zero)
        /\ call.target = Zero =>
              (r.source_volume_ml = Zero /\ r.diluent_volume_ml = call.total)
        /\ Le(Zero, call.total) =>
              (Le(Zero, r.source_volume_ml) /\ Le(Zero, r.diluent_volume_ml))

\* C29 as stated: source_volume_ml * source equals total * target exactly.
C29_AlcoholConservedExact ==
    Diluted =>
        /\ FMul(call.result.source_volume_ml, call.source) = FMul(call.total, call.target)
        /\ DilutionEnds

\* C29.  Pearson's square conserves the pure alcohol up to rounding: for
\* every successful pearson_square(source, target, total),
\* source_volume_ml * source agrees with total * target within 6 unit
\* roundoffs; target = source gives source_volume_ml = total and
\* diluent_volume_ml = 0, target = 0 gives source_volume_ml = 0 and
\* diluent_volume_ml = total, and for total >= 0 no volume is negative.
C29_AlcoholConserved ==
    Diluted =>
        /\ Close(FMul(call.result.source_volume_ml, call.source), FMul(call.total, call.target), 6)
        /\ DilutionEnds

\* A dilution to a lower strength whose alcohol does not come out exactly.
C29_Witness ==
    /\ Diluted
    /\ Lt(Zero, call.target) /\ Lt(call.target, call.source)
    /\ Lt(Zero, call.result.diluent_volume_ml)
    /\ FMul(call.result.source_volume_ml, call.source) # FMul(call.total, call.target)


(***************************************************************************)
(* calculate_menstruum and pearson_square                                  *)
(***************************************************************************)

\* calculate_menstruum was called without glycerin, for herb_g > 0, ratio > 0,
\* 0 < source <= 100 and 0 <= target <= source.
PlainDilution ==
    /\ call # NoCall /\ call.op = "calculate_menstruum"
    /\ Lt(Zero, call.result.herb_weight_g) /\ Lt(Zero, call.result.ratio)
    /\ call.result.glycerin_pct = Zero
    /\ Lt(Zero, call.result.ethanol_source_pct) /\ Le(call.result.ethanol_source_pct, F(100))
    /\ Le(Zero, call.result.target_alcohol_pct)
    /\ Le(call.result.target_alcohol_pct, call.result.ethanol_source_pct)

\* pearson_square(source, target, total) with total = herb_g * ratio.
Square ==
    pearson_square(call.result.ethanol_source_pct, call.result.target_alcohol_pct,
                   FMul(call.result.herb_weight_g, call.result.ratio))

\* C30 as stated: the two calculators agree exactly.
C30_CalculatorsAgreeExact ==
    PlainDilution =>
        /\ Square.status = "ok"
        /\ call.ethanol_source_ml = Square.source_volume_ml
        /\ call.added_water_ml = Square.diluent_volume_ml

\* C30.  The two dilution calculators agree up to rounding: pearson_square
\* succeeds, ethanol_source_ml is within 6 unit roundoffs of its
\* source_volume_ml, and added_water_ml differs from its diluent_volume_ml by
\* at most 8 unit roundoffs of the total volume.
C30_CalculatorsAgree ==
    PlainDilution =>
        /\ Square.status = "ok"
        /\ Close(call.ethanol_source_ml, Square.source_volume_ml, 6)
        /\ Within(call.added_water_ml, Square.diluent_volume_ml, call.result.total_volume_ml, 8)

\* A dilution of 94 % alcohol to 40 % on which the two calculators differ in
\* the last place.
C30_Witness ==
    /\ PlainDilution
    /\ call.result.ethanol_source_pct = F(94) /\ call.result.target_alcohol_pct = F(40)
    /\ Square.status = "ok"
    /\ Lt(Zero, call.added_water_ml)
    /\ \/ call.ethanol_source_ml # Square.source_volume_ml
       \/ call.added_water_ml # Square.diluent_volume_ml

=============================================================================
